---- MODULE Spec2Model ----
(***************************************************************************)
(* FanSense location-resolution core: the LocationParser class of          *)
(* src/data_processing/location_parser.py (Extractor, Geocoder Gateway,    *)
(* Location Cache, Pipeline Orchestrator) as a state machine.              *)
(*                                                                         *)
(* Strings are sequences of one-character strings, so that lower(),        *)
(* strip(), split(), substring tests and the regular expressions of the    *)
(* source are computed, not assumed.  A Python function whose result       *)
(* depends on set iteration order is modelled by the set of values it can  *)
(* return.                                                                 *)
(***************************************************************************)
EXTENDS Integers, Sequences, FiniteSets, TLC

\* Python's None.  TLC compares only values of one kind, so None is written as a
\* tuple where a string or a list is expected (no string equals it: a string is a
\* tuple of one-character strings) and as a record where an object is expected.
None == <<"None">>

NoneObj == [none |-> TRUE]

(***************************************************************************)
(* Characters and the string methods the source uses.                      *)
(***************************************************************************)
UpperChars == <<"A","B","C","D","E","F","G","H","I","J","K","L","M","N","O","P","Q","R","S","T","U","V","W","X","Y","Z">>

LowerChars == <<"a","b","c","d","e","f","g","h","i","j","k","l","m","n","o","p","q","r","s","t","u","v","w","x","y","z">>

DigitChars == <<"0","1","2","3","4","5","6","7","8","9">>

IsUpper(c) == \E i \in 1..Len(UpperChars) : UpperChars[i] = c

IsLower(c) == \E i \in 1..Len(LowerChars) : LowerChars[i] = c

IsDigit(c) == \E i \in 1..Len(DigitChars) : DigitChars[i] = c

\* \w of the re module (ASCII letters, digits, underscore).
IsWordChar(c) == IsUpper(c) \/ IsLower(c) \/ IsDigit(c) \/ c = "_"

IsSpace(c) == c = " "

SetMin(S) == CHOOSE x \in S : \A y \in S : x <= y

SetMax(S) == CHOOSE x \in S : \A y \in S : x >= y

CharLower(c) ==
    IF IsUpper(c)
    THEN LowerChars[CHOOSE i \in 1..Len(UpperChars) : UpperChars[i] = c]
    ELSE c

\* str.lower()
Lower(s) == [i \in 1..Len(s) |-> CharLower(s[i])]

\* str.strip()
Strip(s) ==
    LET idx == {i \in 1..Len(s) : ~IsSpace(s[i])}
    IN  IF idx = {} THEN <<>> ELSE SubSeq(s, SetMin(idx), SetMax(idx))

\* str.split(): the maximal runs of non-whitespace characters, in order.
Split(s) ==
    LET starts == {i \in 1..Len(s) : ~IsSpace(s[i]) /\ (i = 1 \/ IsSpace(s[i-1]))}
        EndOf(i) == SetMin({j \in i..Len(s) : j = Len(s) \/ IsSpace(s[j+1])})
        Nth(k) == CHOOSE i \in starts : Cardinality({j \in starts : j < i}) = k - 1
    IN  [k \in 1..Cardinality(starts) |-> SubSeq(s, Nth(k), EndOf(Nth(k)))]

\* The positions at which needle occurs in hay.
Occurrences(hay, needle) ==
    {i \in 1..(Len(hay) - Len(needle) + 1) : SubSeq(hay, i, i + Len(needle) - 1) = needle}

\* Python's "needle in hay" for strings.
Contains(hay, needle) == Occurrences(hay, needle) # {}

\* Python truthiness of an optional string or list.
Truthy(v) == v # None /\ v # <<>>

\* str(n) for an integer n.
RECURSIVE NatStr(_)
NatStr(n) == IF n < 10 THEN <<DigitChars[n + 1]>> ELSE NatStr(n \div 10) \o <<DigitChars[(n % 10) + 1]>>

IntStr(n) == IF n < 0 THEN <<"-">> \o NatStr(-n) ELSE NatStr(n)

(***************************************************************************)
(* The module's tables.                                                    *)
(***************************************************************************)
\* Each pattern is '<prefix> ([A-Z][a-z]+ ?[A-Z]?[a-z]*)'; the set holds the
\* prefixes (with the space that precedes the group), PatternMatchEnd the group.
LOCATION_PATTERNS ==
    { <<"i","n"," ">>,
      <<"f","r","o","m"," ">>,
      <<"a","t"," ">>,
      <<"n","e","a","r"," ">>,
      <<"t","o"," ">>,
      <<"v","i","s","i","t","i","n","g"," ">>,
      <<"l","i","v","e"," ","i","n"," ">>,
      <<"b","a","s","e","d"," ","i","n"," ">>,
      <<"l","o","c","a","t","e","d"," ","i","n"," ">> }

MAJOR_LOCATIONS ==
    { <<"a","l","a","b","a","m","a">>,
      <<"a","l","a","s","k","a">>,
      <<"a","m","e","r","i","c","a">>,
      <<"a","r","g","e","n","t","i","n","a">>,
      <<"a","r","i","z","o","n","a">>,
      <<"a","r","k","a","n","s","a","s">>,
      <<"a","t","l","a","n","t","a">>,
      <<"a","u","s","t","i","n">>,
      <<"a","u","s","t","r","a","l","i","a">>,
      <<"a","u","s","t","r","i","a">>,
      <<"b","a","n","g","k","o","k">>,
      <<"b","a","n","g","l","a","d","e","s","h">>,
      <<"b","e","i","j","i","n","g">>,
      <<"b","e","l","g","i","u","m">>,
      <<"b","e","r","l","i","n">>,
      <<"b","o","s","t","o","n">>,
      <<"b","r","a","z","i","l">>,
      <<"b","r","u","s","s","e","l","s">>,
      <<"c","a","i","r","o">>,
      <<"c","a","l","i","f","o","r","n","i","a">>,
      <<"c","a","n","a","d","a">>,
      <<"c","h","i","c","a","g","o">>,
      <<"c","h","i","n","a">>,
      <<"c","o","l","o","r","a","d","o">>,
      <<"c","o","n","n","e","c","t","i","c","u","t">>,
      <<"d","a","l","l","a","s">>,
      <<"d","e","l","a","w","a","r","e">>,
      <<"d","e","l","h","i">>,
      <<"d","e","n","m","a","r","k">>,
      <<"d","h","a","k","a">>,
      <<"d","u","b","a","i">>,
      <<"e","g","y","p","t">>,
      <<"e","n","g","l","a","n","d">>,
      <<"f","i","n","l","a","n","d">>,
      <<"f","l","o","r","i","d","a">>,
      <<"f","r","a","n","c","e">>,
      <<"g","e","o","r","g","i","a">>,
      <<"g","e","r","m","a","n","y">>,
      <<"h","a","w","a","i","i">>,
      <<"h","o","n","g"," ","k","o","n","g">>,
      <<"h","o","u","s","t","o","n">>,
      <<"i","d","a","h","o">>,
      <<"i","l","l","i","n","o","i","s">>,
      <<"i","n","d","i","a">>,
      <<"i","n","d","i","a","n","a">>,
      <<"i","n","d","o","n","e","s","i","a">>,
      <<"i","o","w","a">>,
      <<"i","r","a","n">>,
      <<"i","r","a","q">>,
      <<"i","r","e","l","a","n","d">>,
      <<"i","s","r","a","e","l">>,
      <<"i","s","t","a","n","b","u","l">>,
      <<"i","t","a","l","y">>,
      <<"j","a","k","a","r","t","a">>,
      <<"j","a","p","a","n">>,
      <<"j","o","h","a","n","n","e","s","b","u","r","g">>,
      <<"k","a","n","s","a","s">>,
      <<"k","a","r","a","c","h","i">>,
      <<"k","e","n","t","u","c","k","y">>,
      <<"k","e","n","y","a">>,
      <<"k","i","e","v">>,
      <<"k","u","a","l","a"," ","l","u","m","p","u","r">>,
      <<"l","a","g","o","s">>,
      <<"l","e","b","a","n","o","n">>,
      <<"l","o","n","d","o","n">>,
      <<"l","o","s"," ","a","n","g","e","l","e","s">>,
      <<"l","o","u","i","s","i","a","n","a">>,
      <<"m","a","d","r","i","d">>,
      <<"m","a","i","n","e">>,
      <<"m","a","l","a","y","s","i","a">>,
      <<"m","a","n","i","l","a">>,
      <<"m","a","r","y","l","a","n","d">>,
      <<"m","a","s","s","a","c","h","u","s","e","t","t","s">>,
      <<"m","e","l","b","o","u","r","n","e">>,
      <<"m","e","x","i","c","o">>,
      <<"m","e","x","i","c","o"," ","c","i","t","y">>,
      <<"m","i","a","m","i">>,
      <<"m","i","c","h","i","g","a","n">>,
      <<"m","i","n","n","e","s","o","t","a">>,
      <<"m","i","s","s","i","s","s","i","p","p","i">>,
      <<"m","i","s","s","o","u","r","i">>,
      <<"m","o","n","t","a","n","a">>,
      <<"m","o","s","c","o","w">>,
      <<"m","u","m","b","a","i">>,
      <<"n","e","b","r","a","s","k","a">>,
      <<"n","e","t","h","e","r","l","a","n","d","s">>,
      <<"n","e","v","a","d","a">>,
      <<"n","e","w"," ","h","a","m","p","s","h","i","r","e">>,
      <<"n","e","w"," ","j","e","r","s","e","y">>,
      <<"n","e","w"," ","m","e","x","i","c","o">>,
      <<"n","e","w"," ","y","o","r","k">>,
      <<"n","e","w"," ","y","o","r","k"," ","s","t","a","t","e">>,
      <<"n","e","w"," ","z","e","a","l","a","n","d">>,
      <<"n","i","g","e","r","i","a">>,
      <<"n","o","r","t","h"," ","c","a","r","o","l","i","n","a">>,
      <<"n","o","r","t","h"," ","d","a","k","o","t","a">>,
      <<"n","o","r","t","h"," ","k","o","r","e","a">>,
      <<"n","o","r","w","a","y">>,
      <<"o","h","i","o">>,
      <<"o","k","l","a","h","o","m","a">>,
      <<"o","r","e","g","o","n">>,
      <<"o","s","a","k","a">>,
      <<"p","a","k","i","s","t","a","n">>,
      <<"p","a","r","i","s">>,
      <<"p","e","n","n","s","y","l","v","a","n","i","a">>,
      <<"p","h","i","l","a","d","e","l","p","h","i","a">>,
      <<"p","h","i","l","i","p","p","i","n","e","s">>,
      <<"p","h","o","e","n","i","x">>,
      <<"p","o","l","a","n","d">>,
      <<"p","o","r","t","u","g","a","l">>,
      <<"q","a","t","a","r">>,
      <<"r","h","o","d","e"," ","i","s","l","a","n","d">>,
      <<"r","o","m","e">>,
      <<"r","u","s","s","i","a">>,
      <<"s","a","n"," ","a","n","t","o","n","i","o">>,
      <<"s","a","n"," ","d","i","e","g","o">>,
      <<"s","a","n"," ","f","r","a","n","c","i","s","c","o">>,
      <<"s","a","n"," ","j","o","s","e">>,
      <<"s","a","o"," ","p","a","u","l","o">>,
      <<"s","a","u","d","i"," ","a","r","a","b","i","a">>,
      <<"s","e","a","t","t","l","e">>,
      <<"s","e","o","u","l">>,
      <<"s","h","a","n","g","h","a","i">>,
      <<"s","i","n","g","a","p","o","r","e">>,
      <<"s","o","u","t","h"," ","a","f","r","i","c","a">>,
      <<"s","o","u","t","h"," ","c","a","r","o","l","i","n","a">>,
      <<"s","o","u","t","h"," ","d","a","k","o","t","a">>,
      <<"s","o","u","t","h"," ","k","o","r","e","a">>,
      <<"s","p","a","i","n">>,
      <<"s","w","e","d","e","n">>,
      <<"s","w","i","t","z","e","r","l","a","n","d">>,
      <<"s","y","d","n","e","y">>,
      <<"t","e","h","r","a","n">>,
      <<"t","e","n","n","e","s","s","e","e">>,
      <<"t","e","x","a","s">>,
      <<"t","h","a","i","l","a","n","d">>,
      <<"t","o","k","y","o">>,
      <<"t","o","r","o","n","t","o">>,
      <<"t","u","r","k","e","y">>,
      <<"u","a","e">>,
      <<"u","k">>,
      <<"u","k","r","a","i","n","e">>,
      <<"u","n","i","t","e","d"," ","a","r","a","b"," ","e","m","i","r","a","t","e","s">>,
      <<"u","n","i","t","e","d"," ","k","i","n","g","d","o","m">>,
      <<"u","n","i","t","e","d"," ","s","t","a","t","e","s">>,
      <<"u","s","a">>,
      <<"u","t","a","h">>,
      <<"v","e","r","m","o","n","t">>,
      <<"v","i","e","t","n","a","m">>,
      <<"v","i","r","g","i","n","i","a">>,
      <<"w","a","s","h","i","n","g","t","o","n">>,
      <<"w","e","s","t"," ","v","i","r","g","i","n","i","a">>,
      <<"w","i","s","c","o","n","s","i","n">>,
      <<"w","y","o","m","i","n","g">> }

IGNORE_LOCATIONS ==
    { <<"a","m","a","z","o","n">>,
      <<"a","p","p">>,
      <<"a","p","p","l","e">>,
      <<"c","l","o","u","d">>,
      <<"c","y","b","e","r","s","p","a","c","e">>,
      <<"e","a","r","t","h">>,
      <<"e","v","e","r","y","w","h","e","r","e">>,
      <<"f","a","c","e","b","o","o","k">>,
      <<"g","l","o","b","a","l">>,
      <<"g","o","o","g","l","e">>,
      <<"h","o","m","e">>,
      <<"i","n","b","o","x">>,
      <<"i","n","s","t","a","g","r","a","m">>,
      <<"i","n","t","e","r","n","e","t">>,
      <<"l","i","n","k","e","d","i","n">>,
      <<"m","a","t","r","i","x">>,
      <<"m","e","t","a","v","e","r","s","e">>,
      <<"m","i","c","r","o","s","o","f","t">>,
      <<"n","o","w","h","e","r","e">>,
      <<"o","n","l","i","n","e">>,
      <<"p","l","a","n","e","t">>,
      <<"p","l","a","t","f","o","r","m">>,
      <<"r","e","a","l","i","t","y">>,
      <<"s","n","a","p","c","h","a","t">>,
      <<"s","o","c","i","a","l"," ","m","e","d","i","a">>,
      <<"t","i","k","t","o","k">>,
      <<"t","w","i","t","c","h">>,
      <<"t","w","i","t","t","e","r">>,
      <<"u","n","i","v","e","r","s","e">>,
      <<"w","e","b">>,
      <<"w","e","b","s","i","t","e">>,
      <<"w","o","r","k">>,
      <<"w","o","r","l","d","w","i","d","e">>,
      <<"y","o","u","t","u","b","e">>,
      <<"z","o","o","m">> }

(***************************************************************************)
(* Text mining: find_locations_in_text.                                    *)
(***************************************************************************)
\* The last index of the maximal run [a-z]* that starts at index i (i - 1 when empty).
LowerRunEnd(t, i) ==
    SetMin({j \in i..(Len(t) + 1) : j = Len(t) + 1 \/ ~IsLower(t[j])}) - 1

\* re.match of '<prefix>([A-Z][a-z]+ ?[A-Z]?[a-z]*)' at index i of t: the index of the
\* last character matched, 0 when there is no match.  Every part after [a-z]+ may
\* match the empty string, so the greedy match never backtracks.
PatternMatchEnd(t, prefix, i) ==
    LET j == i + Len(prefix)
    IN  IF /\ j + 1 <= Len(t)
           /\ SubSeq(t, i, j - 1) = prefix
           /\ IsUpper(t[j])
           /\ IsLower(t[j + 1])
        THEN LET e1 == LowerRunEnd(t, j + 1)
                 e2 == IF e1 + 1 <= Len(t) /\ t[e1 + 1] = " " THEN e1 + 1 ELSE e1
                 e3 == IF e2 + 1 <= Len(t) /\ IsUpper(t[e2 + 1]) THEN e2 + 1 ELSE e2
             IN  LowerRunEnd(t, e3 + 1)
        ELSE 0

\* re.findall(pattern, text): the groups of the non-overlapping matches, left to right.
RECURSIVE PatternFindAll(_, _, _)
PatternFindAll(t, prefix, pos) ==
    LET hits == {i \in pos..Len(t) : PatternMatchEnd(t, prefix, i) # 0}
    IN  IF hits = {} THEN {}
        ELSE LET i == SetMin(hits)
                 e == PatternMatchEnd(t, prefix, i)
             IN  {SubSeq(t, i + Len(prefix), e)} \cup PatternFindAll(t, prefix, e + 1)

\* re.findall(r'\b[A-Z][a-z]+\b', text)
CapitalizedWords(t) ==
    {SubSeq(t, i, LowerRunEnd(t, i + 1)) : i \in
        {k \in 1..Len(t) :
            /\ IsUpper(t[k])
            /\ (k = 1 \/ ~IsWordChar(t[k - 1]))
            /\ LowerRunEnd(t, k + 1) > k
            /\ (LowerRunEnd(t, k + 1) = Len(t) \/ ~IsWordChar(t[LowerRunEnd(t, k + 1) + 1]))}}

\* The deduplicated candidates of a text (the source returns them as a list whose
\* order is the iteration order of a set of strings).
find_locations_in_text(text) ==
    IF ~Truthy(text) THEN {}
    ELSE LET byPattern == UNION {PatternFindAll(text, p, 1) : p \in LOCATION_PATTERNS}
             byWord == {w \in CapitalizedWords(text) :
                           Lower(w) \in MAJOR_LOCATIONS /\ Lower(w) \notin IGNORE_LOCATIONS}
             byPhrase == {SubSeq(text, SetMin(Occurrences(Lower(text), loc)),
                                       SetMin(Occurrences(Lower(text), loc)) + Len(loc) - 1) :
                             loc \in {l \in MAJOR_LOCATIONS :
                                         Contains(Lower(text), l) /\ l \notin IGNORE_LOCATIONS}}
         IN  {m \in byPattern : Lower(m) \notin IGNORE_LOCATIONS} \cup byWord \cup byPhrase

(***************************************************************************)
(* The Extractor.  Each operator is the set of values the method can       *)
(* return: locations[0] is any element of the deduplicated set.            *)
(***************************************************************************)
extract_location_from_text(text) ==
    IF ~Truthy(text) THEN {None}
    ELSE IF find_locations_in_text(text) = {} THEN {None}
    ELSE find_locations_in_text(text)

\* The profile location returned without the ignore-list test: the variant C9
\* tells apart.
extract_location_from_user_profile_NoIgnore(user) ==
    IF user = NoneObj THEN {None}
    ELSE IF Truthy(user.location)
    THEN {Strip(user.location)}
    ELSE IF Truthy(user.description) /\ find_locations_in_text(user.description) # {}
    THEN find_locations_in_text(user.description)
    ELSE {None}

\* A user is NoneObj (missing or empty profile) or [location, description], each a
\* string or None.
extract_location_from_user_profile(user) ==
    IF user = NoneObj THEN {None}
    ELSE IF Truthy(user.location) /\ Lower(Strip(user.location)) \notin IGNORE_LOCATIONS
    THEN {Strip(user.location)}
    ELSE IF Truthy(user.description) /\ find_locations_in_text(user.description) # {}
    THEN find_locations_in_text(user.description)
    ELSE {None}

\* A tweet is [geo, place, user, text]: geo is NoneObj or [coordinates |-> a list
\* of numbers, empty when absent], place is NoneObj or [full_name |-> a string or None].
extract_location_from_tweet(tweet) ==
    IF tweet.geo # NoneObj /\ tweet.geo.coordinates # <<>>
    THEN {IntStr(tweet.geo.coordinates[1]) \o <<",">> \o IntStr(tweet.geo.coordinates[2])}
    ELSE IF tweet.place # NoneObj /\ Truthy(tweet.place.full_name)
    THEN {tweet.place.full_name}
    ELSE LET fromUser == extract_location_from_user_profile(tweet.user)
         IN  {u \in fromUser : Truthy(u)} \cup
             (IF \E u \in fromUser : ~Truthy(u)
              THEN extract_location_from_text(tweet.text) ELSE {})

(***************************************************************************)
(* Bounds of the model.                                                    *)
(***************************************************************************)
\* A public call that misses the cache goes on to the service only while
\* request_count is below this; a loop over a list of posts is started only while
\* it is, and then runs to its end.
MaxRequests == 2

\* The clock ticks on its own up to this time; a sleep may carry it further.
MaxTime == 4

\* The longest list handed to parse_tweets_location and fetched by
\* collect_tweets_by_search.
MaxBatch == 2

\* The length of the one long list handed to parse_tweets_location: long enough
\* for request_count to pass 10.
LongBatch == 11

\* The strings of the run in which the file falls behind the cache, and the
\* request_count up to which a call on one of them goes on to the service.
LagTowns == 11

MaxLagRequests == 20

\* The most components an address handed to the decomposition has.
MaxParts == 4

\* The calls the two threads start between them.
MaxThreadCalls == 3

(***************************************************************************)
(* Time.  The clock counts ticks; the 1.0 second of _respect_rate_limit is *)
(* OneSecond ticks.                                                        *)
(***************************************************************************)
OneSecond == 2

\* time.time() at construction: far more than one second after
\* last_request_time = 0, so that the first pass never sleeps.
StartTime == OneSecond

(***************************************************************************)
(* The collaborators: the geocoding service and the cache file.            *)
(***************************************************************************)
\* The Location objects geolocator.geocode can return.
ServiceLocations ==
    { [address |-> <<"P","a","r","i","s",","," ","F","r","a","n","c","e">>, latitude |-> 48, longitude |-> 2,
       raw |-> [place_id |-> 1]],
      [address |-> <<"P","a","r","i","s",","," ","T","e","x","a","s">>, latitude |-> 33, longitude |-> -95,
       raw |-> [place_id |-> 2]] }

\* The errors of geopy.exc the source names.
ServiceErrors == {"GeocoderTimedOut", "GeocoderUnavailable", "GeocoderServiceError"}

\* What one call of geolocator.geocode(term, exactly_one=True) can do: return a
\* Location, return None, or raise.
GeocodeOutcomes ==
    {[kind |-> "location", location |-> l] : l \in ServiceLocations}
    \cup {[kind |-> "none"]}
    \cup {[kind |-> "error", error |-> e] : e \in ServiceErrors}

\* An except clause that names the timeout only: the variant C13 tells apart.
CaughtByPrimary_TimeoutOnly == {"GeocoderTimedOut"}

\* The except clause around the primary query.
CaughtByPrimary == {"GeocoderTimedOut", "GeocoderUnavailable", "GeocoderServiceError"}

\* The bare except around each fallback query.
CaughtByFallback == ServiceErrors

\* A dump that keeps of each value its input only: the variant C25 tells apart.
JsonDump_InputsOnly(cache) == {<<k, [input |-> cache[k].input]>> : k \in DOMAIN cache}

\* json.dump of the mapping: the members of one JSON object.
JsonDump(cache) == {<<k, cache[k]>> : k \in DOMAIN cache}

\* json.load of a file json.dump wrote.
JsonLoad(members) ==
    [k \in {m[1] : m \in members} |-> (CHOOSE m \in members : m[1] = k)[2]]

FileMissing == [state |-> "missing", members |-> {}]

\* A file json.load cannot parse: what a write that failed half-way left behind.
FileCorrupt == [state |-> "corrupt", members |-> {<<<<"P","a","r","i","s">>, [input |-> <<"P","a","r">>]>>}]

FileHolding(cache) == [state |-> "ok", members |-> JsonDump(cache)]

\* The files _save_cache can leave behind: the mapping written; the old file (open
\* failed); a truncated file (the write failed after open(.., 'w')).  The exception
\* is caught and logged in each case.
SaveOutcomes(cache, file) == {FileHolding(cache), file, FileCorrupt}

\* The history of failed saves after a save of cache that left file.
FailedSo(failed, cache, file) == failed \/ file # FileHolding(cache)

\* A loader that takes whatever the file holds: the variant C18 tells apart.
_load_cache_Unguarded(file) == JsonLoad(file.members)

\* Lines 102-109: the mapping of a file that exists and parses, {} otherwise.
_load_cache(file) == IF file.state = "ok" THEN JsonLoad(file.members) ELSE <<>>

\* A result whose coordinates are not those of the response: the variant C23
\* tells apart.
GeocodeResult_Mixed(location_str, location) ==
    [input |-> location_str, address |-> location.address,
     latitude |-> 48, longitude |-> 2, raw |-> location.raw]

\* The result dictionary geocode_location builds from a Location.
GeocodeResult(location_str, location) ==
    [input |-> location_str, address |-> location.address,
     latitude |-> location.latitude, longitude |-> location.longitude,
     raw |-> location.raw]

\* A store that forgets the write: the variant C2 tells apart.
Put_Dropped(cache, key, value) == cache

\* self.location_cache[key] = value
Put(cache, key, value) == (key :> value) @@ cache

\* Keyed by the term sent to the service: the variant C5 tells apart.
CacheKey_Term(location_str, term) == term

\* The key under which a result is stored (lines 305 and 331): the argument,
\* whatever term was sent to the service.
CacheKey(location_str, term) == location_str

(***************************************************************************)
(* Inputs.                                                                 *)
(***************************************************************************)
\* The strings handed to geocode_location.
GeoInputs ==
    { <<>>, <<"P","a","r","i","s">>, <<"P","a","r","i","s"," ","T","e","x","a","s">>, <<"N","e","w"," ","Y","o","r","k"," ","b","a","b","y">> }

\* Those handed to it where every public method is in play.
PipelineGeoInputs == { <<"P","a","r","i","s"," ","T","e","x","a","s">> }

\* Those handed to it next to add_known_location: the name and its variations.
ManualGeoInputs ==
    { <<"P","a","r","i","s">>, <<"i","n"," ","P","a","r","i","s">>, <<"f","r","o","m"," ","P","a","r","i","s">>, <<"a","t"," ","P","a","r","i","s">>, <<"n","e","a","r"," ","P","a","r","i","s">>,
      <<"t","o"," ","P","a","r","i","s">> }

\* Two threads calling geocode_location on one parser, and what they pass.
Threads == {1, 2}

ThreadInputs == { <<"R","o","m","e">> }

\* Those handed to it to see the term of the primary query: a gazetteer entry in
\* capitals, strings that contain entries, and one that contains none.
TermInputs == { <<"P","A","R","I","S">>, <<"P","a","r","i","s"," ","T","e","x","a","s">>, <<"G","r","e","a","t","e","r"," ","P","a","r","i","s"," ","a","r","e","a">>, <<"Z","z","y","z","x">> }

\* Those handed to it in the run in which the file falls behind the cache: "Town1",
\* "Town2", ..., no two alike and none with a gazetteer entry in it.
LagInputs == [i \in 1..LagTowns |-> <<"T","o","w","n">> \o NatStr(i)]

LagInputSet == {LagInputs[i] : i \in 1..LagTowns}

\* The request_count below which a call on s that misses the cache goes on.
Budget(s) == IF s \in LagInputSet THEN MaxLagRequests ELSE MaxRequests

\* The service of that run: it knows one place, or finds nothing.
LagOutcomes ==
    {[kind |-> "location", location |-> l] : l \in {x \in ServiceLocations : x.latitude = 48}}
    \cup {[kind |-> "none"]}

\* The names handed to add_known_location, and the coordinates.
KnownNames == { <<"P","a","r","i","s">> }

KnownLatitudes == {48, 49}

KnownLongitudes == {2}

NoUser == NoneObj

\* The posts handed to parse_tweet_location and parse_tweets_location.
Tweets ==
    { [geo |-> NoneObj, place |-> NoneObj, user |-> NoUser, text |-> <<"h","e","l","l","o">>],
      [geo |-> NoneObj, place |-> NoneObj,
       user |-> [location |-> <<" ","P","a","r","i","s"," ">>, description |-> None], text |-> <<"h","e","l","l","o">>] }

\* The long list: the same post, with a profile location, LongBatch times.
LongPosts ==
    [i \in 1..LongBatch |->
        [geo |-> NoneObj, place |-> NoneObj,
         user |-> [location |-> <<" ","P","a","r","i","s"," ">>, description |-> None], text |-> <<"h","e","l","l","o">>]]

RECURSIVE SeqsUpTo(_, _)
SeqsUpTo(S, n) ==
    IF n = 0 THEN {<<>>}
    ELSE SeqsUpTo(S, n - 1) \cup {Append(q, x) : q \in SeqsUpTo(S, n - 1), x \in S}

\* A cache file a previous run left behind.
InitialFiles ==
    { FileMissing, FileCorrupt,
      FileHolding(Put(<<>>, <<"P","a","r","i","s">>,
          GeocodeResult(<<"P","a","r","i","s">>, CHOOSE l \in ServiceLocations : l.latitude = 48))) }

(***************************************************************************)
(* State.                                                                  *)
(***************************************************************************)
VARIABLES
    location_cache,     \* self.location_cache: string -> GeocodeResult
    request_count,      \* self.request_count
    last_request_time,  \* self.last_request_time
    cache_file,         \* the file named self.cache_file
    now,                \* time.time()
    op,                 \* the public method in progress, "idle" when none
    pc,                 \* where control is inside it
    location_str,       \* geocode_location's argument, None outside it
    attempt,            \* 0: the primary query; k > 0: the loop is at words[k]
    current_time,       \* _respect_rate_limit's local
    tweets,             \* the posts still to process, the current one first
    result,             \* parse_tweets_location's result list
    ret,                \* what the last public call returned
    queries,            \* history: the external queries of the current public call,
                        \*          each [term, attempt, kind of outcome]
    flushes,            \* history: the _save_cache calls of the current public call
    sleeps,             \* history: the time.sleep calls of the current public call
    passes,             \* history: its completed passes of _respect_rate_limit
    lookups,            \* history: the cache lookups of the current public call
    last_query_at,      \* history: when the last external query was sent, -1 if never
    other_last_request_time,
                        \* self.last_request_time of a second LocationParser of the
                        \* process (process_tweets.main builds one, TwitterStream
                        \* another)
    thread,             \* per thread calling geocode_location on this parser: where
                        \* it is, its argument, its locals and what it last did
    stamps,             \* history: the writes of last_request_time by the threads
    total_queries,      \* history: the external queries this instance has sent
    write_failed        \* history: a save of this instance did not write the file

parser == <<location_cache, request_count, last_request_time>>

control == <<op, pc, location_str, attempt, tweets, result, ret>>

other == <<other_last_request_time, thread, stamps, total_queries, write_failed>>

history == <<queries, flushes, sleeps, passes, lookups, last_query_at>>

vars == <<parser, cache_file, now, control, current_time, history, other>>

\* The record of a finished public call: the method, its argument, the value it
\* returned, and the exception that left it ("none" when it returned).
Returned(o, a, v) == [op |-> o, arg |-> a, value |-> v, exc |-> "none"]

Raised(o, a, e) == [op |-> o, arg |-> a, value |-> NoneObj, exc |-> e]

\* A thread that has not called yet.  seen is the number of writes of
\* last_request_time made before the thread read it, stamp_no the number of its own
\* write, stamped_at and sent_at the times of its write and of its query.
ThreadStart ==
    [pc |-> "idle", s |-> None, current_time |-> 0, elapsed |-> 0, wake |-> 0,
     loaded |-> 0, seen |-> 0, stamp_no |-> 0, stamped_at |-> -1, sent_at |-> -1]

Init ==
    /\ cache_file \in InitialFiles
    /\ location_cache = _load_cache(cache_file)
    /\ request_count = 0
    /\ last_request_time = 0
    /\ now = StartTime
    /\ op = "idle"
    /\ pc = "-"
    /\ location_str = None
    /\ attempt = 0
    /\ current_time = 0
    /\ tweets = <<>>
    /\ result = <<>>
    /\ ret = Returned("__init__", NoneObj, NoneObj)
    /\ queries = <<>>
    /\ flushes = 0
    /\ sleeps = 0
    /\ passes = 0
    /\ lookups = 0
    /\ last_query_at = -1
    /\ other_last_request_time = 0
    /\ thread = [t \in Threads |-> ThreadStart]
    /\ stamps = 0
    /\ total_queries = 0
    /\ write_failed = FALSE

(***************************************************************************)
(* Returning from geocode_location to the public method o that called it.  *)
(* ts is the list of posts in progress (the current one first), c the      *)
(* string that was geocoded, r the value returned.                         *)
(***************************************************************************)
\* The candidate kept only next to a result: the variant C11 tells apart.
Enrich_RawWhenGeocoded(tweet, c, r) ==
    [location |-> [raw_location |-> IF r = NoneObj THEN None ELSE c, geocoded |-> r]]
        @@ tweet

\* tweet['location'] = {'raw_location': .., 'geocoded': ..}
Enrich(tweet, c, r) == [location |-> [raw_location |-> c, geocoded |-> r]] @@ tweet

\* The public methods that loop over a list of posts.
LoopOps == {"parse_tweets_location", "collect_tweets_by_search"}

Complete(o, ts, c, r) ==
    /\ location_str' = None
    /\ attempt' = 0
    /\ CASE o = "geocode_location" ->
              /\ op' = "idle"
              /\ pc' = "-"
              /\ ret' = Returned(o, c, r)
              /\ UNCHANGED <<tweets, result>>
         [] o = "parse_tweet_location" ->
              /\ op' = "idle"
              /\ pc' = "-"
              /\ ret' = Returned(o, Head(ts), Enrich(Head(ts), c, r))
              /\ tweets' = <<>>
              /\ UNCHANGED result
         [] o \in LoopOps ->
              /\ op' = o
              /\ pc' = "loop"
              /\ result' = Append(result, Enrich(Head(ts), c, r))
              /\ tweets' = Tail(ts)
              /\ UNCHANGED ret

\* The post as it was before Enrich.
Original(enriched) == [f \in DOMAIN enriched \ {"location"} |-> enriched[f]]

\* An exception leaves geocode_location and every caller above it.
Propagate(o, e) ==
    /\ location_str' = None
    /\ attempt' = 0
    /\ op' = "idle"
    /\ pc' = "-"
    /\ ret' = Raised(o, IF o = "geocode_location" THEN location_str
                        ELSE IF o = "parse_tweet_location" THEN Head(tweets)
                        ELSE [i \in 1..Len(result) |-> Original(result[i])] \o tweets, e)
    /\ tweets' = <<>>
    /\ result' = <<>>

(***************************************************************************)
(* geocode_location.                                                       *)
(***************************************************************************)
\* geocode_location without the cache lookup: the variant C1 tells apart.
GeocodeBegin_NoLookup(o, ts, s, lk) ==
    /\ lookups' = lk
    /\ IF ~Truthy(s)
       THEN Complete(o, ts, s, NoneObj)
       ELSE /\ o \in LoopOps \/ request_count < Budget(s)
            /\ op' = o
            /\ pc' = "rate_limit"
            /\ location_str' = s
            /\ attempt' = 0
            /\ tweets' = ts
            /\ UNCHANGED <<result, ret>>

\* Lines 268-273: the cache lookup and the empty-input test; on a miss control
\* reaches the first _respect_rate_limit.  lk is the number of lookups so far.
GeocodeBegin(o, ts, s, lk) ==
    /\ lookups' = lk + 1
    /\ IF s \in DOMAIN location_cache
       THEN Complete(o, ts, s, location_cache[s])
       ELSE IF ~Truthy(s)
       THEN Complete(o, ts, s, NoneObj)
       ELSE /\ o \in LoopOps \/ request_count < Budget(s)
            /\ op' = o
            /\ pc' = "rate_limit"
            /\ location_str' = s
            /\ attempt' = 0
            /\ tweets' = ts
            /\ UNCHANGED <<result, ret>>

\* The lowercased input sent when it is a gazetteer entry: the variant C22 tells
\* apart.
PrimaryTerms_Lowered(s) ==
    IF Lower(s) \in MAJOR_LOCATIONS THEN {Lower(s)}
    ELSE LET found == {loc \in MAJOR_LOCATIONS : Contains(Lower(s), loc)}
         IN  IF found = {} THEN {s} ELSE found

\* The search term of the primary query (lines 280-293).  The loop over the set
\* MAJOR_LOCATIONS stops at the first entry contained in the input: any of them.
PrimaryTerms(s) ==
    IF Lower(s) \in MAJOR_LOCATIONS THEN {s}
    ELSE LET found == {loc \in MAJOR_LOCATIONS : Contains(Lower(s), loc)}
         IN  IF found = {} THEN {s} ELSE found

\* A fallback loop entered for a single word too: the variant C30 tells apart.
NextWord_NoLengthTest(s, k) ==
    LET words == Split(s)
        rest == {j \in (k + 1)..Len(words) : Lower(words[j]) \in MAJOR_LOCATIONS}
    IN  IF rest # {} THEN SetMin(rest) ELSE 0

\* A fallback loop over every token: the variant C4 tells apart.
NextWord_AnyWord(s, k) == IF k < Len(Split(s)) THEN k + 1 ELSE 0

\* The index of the next word of the fallback loop (lines 312-315) after index k,
\* 0 when the loop is over.
NextWord(s, k) ==
    LET words == Split(s)
        rest == {j \in (k + 1)..Len(words) : Lower(words[j]) \in MAJOR_LOCATIONS}
    IN  IF Len(words) > 1 /\ rest # {} THEN SetMin(rest) ELSE 0

\* The strings geocode_location can be called with, and the two operators above
\* tabulated over them.
GeoStrings ==
    GeoInputs \cup ManualGeoInputs \cup TermInputs \cup LagInputSet \cup UNION {extract_location_from_tweet(t) \ {None} : t \in Tweets}

PrimaryTermsOf == [s \in GeoStrings |-> PrimaryTerms(s)]

NextWordOf == [s \in GeoStrings |-> [k \in 0..Len(Split(s)) |-> NextWord(s, k)]]

WordsOf == [s \in GeoStrings |-> Split(s)]

\* A public call of geocode_location(s).
geocode_location(s) ==
    /\ op = "idle"
    /\ queries' = <<>>
    /\ flushes' = 0
    /\ sleeps' = 0
    /\ passes' = 0
    /\ GeocodeBegin("geocode_location", <<>>, s, 0)
    /\ UNCHANGED <<other, parser, cache_file, now, current_time, last_query_at>>

\* _respect_rate_limit, line 122: current_time = time.time()
RateLimitRead ==
    /\ pc = "rate_limit"
    /\ current_time' = now
    /\ pc' = "sleep"
    /\ UNCHANGED <<other, parser, cache_file, now, op, location_str, attempt, tweets, result,
                   ret, history>>

\* Lines 123-126: sleep for what is missing to one second.
RateLimitSleep ==
    /\ pc = "sleep"
    /\ LET elapsed == current_time - last_request_time
       IN  IF elapsed < OneSecond
           THEN /\ now' = now + (OneSecond - elapsed)
                /\ sleeps' = sleeps + 1
           ELSE UNCHANGED <<now, sleeps>>
    /\ pc' = "stamp"
    /\ UNCHANGED <<other, parser, cache_file, op, location_str, attempt, tweets, result, ret,
                   current_time, queries, flushes, passes, lookups, last_query_at>>

\* The save every 20 requests: the variant C29 tells apart.
RateLimitStamp_Every20 ==
    /\ pc = "stamp"
    /\ last_request_time' = now
    /\ request_count' = request_count + 1
    /\ IF (request_count + 1) % 20 = 0
       THEN /\ cache_file' \in SaveOutcomes(location_cache, cache_file)
            /\ flushes' = flushes + 1
            /\ write_failed' = FailedSo(write_failed, location_cache, cache_file')
       ELSE UNCHANGED <<cache_file, flushes, write_failed>>
    /\ passes' = passes + 1
    /\ current_time' = 0
    /\ pc' = "query"
    /\ UNCHANGED <<other_last_request_time, thread, stamps, total_queries, location_cache,
                   now, op, location_str, attempt, tweets, result, ret, queries, sleeps,
                   lookups, last_query_at>>

\* The stamp and the count without the periodic save: the variant C15 tells apart.
RateLimitStamp_NoSave ==
    /\ pc = "stamp"
    /\ last_request_time' = now
    /\ request_count' = request_count + 1
    /\ passes' = passes + 1
    /\ current_time' = 0
    /\ pc' = "query"
    /\ UNCHANGED <<other, location_cache, cache_file, now, op, location_str, attempt,
                   tweets, result, ret, queries, flushes, sleeps, lookups, last_query_at>>

\* Lines 128-133: stamp, count, and save the cache every 10 requests.
RateLimitStamp ==
    /\ pc = "stamp"
    /\ last_request_time' = now
    /\ request_count' = request_count + 1
    /\ IF (request_count + 1) % 10 = 0
       THEN /\ cache_file' \in SaveOutcomes(location_cache, cache_file)
            /\ flushes' = flushes + 1
            /\ write_failed' = FailedSo(write_failed, location_cache, cache_file')
       ELSE UNCHANGED <<cache_file, flushes, write_failed>>
    /\ passes' = passes + 1
    /\ current_time' = 0
    /\ pc' = "query"
    /\ UNCHANGED <<other_last_request_time, thread, stamps, total_queries, location_cache, now, op,
                   location_str, attempt, tweets, result, ret, queries, sleeps, lookups,
                   last_query_at>>

\* The next word queried without a pass of the limiter: the variant C27 tells
\* apart.
AfterFailure_NoLimiter ==
    LET k == NextWordOf[location_str][attempt]
    IN  IF k = 0
        THEN Complete(op, tweets, location_str, NoneObj)
        ELSE /\ attempt' = k
             /\ pc' = "query"
             /\ UNCHANGED <<op, location_str, tweets, result, ret>>

\* A failed attempt that leaves the call with an exception: the variant C14 tells
\* apart.
AfterFailure_Abort == Propagate(op, "GeocoderServiceError")

\* What follows an attempt that gave no result: the next word of the fallback
\* loop, or return None.
AfterFailure ==
    LET k == NextWordOf[location_str][attempt]
    IN  IF k = 0
        THEN Complete(op, tweets, location_str, NoneObj)
        ELSE /\ attempt' = k
             /\ pc' = "rate_limit"
             /\ UNCHANGED <<op, location_str, tweets, result, ret>>

\* A query followed by the periodic save: the variant C28 tells apart.
Query_ThenSave ==
    /\ pc = "query"
    /\ \E term \in (IF attempt = 0 THEN PrimaryTermsOf[location_str]
                    ELSE {WordsOf[location_str][attempt]}),
          out \in GeocodeOutcomes :
          /\ queries' = Append(queries, [term |-> term, attempt |-> attempt,
                                          kind |-> out.kind])
          /\ last_query_at' = now
          /\ CASE out.kind = "location" ->
                    /\ location_cache' =
                           Put(location_cache, CacheKey(location_str, term),
                               GeocodeResult(location_str, out.location))
                    /\ Complete(op, tweets, location_str,
                                GeocodeResult(location_str, out.location))
               [] out.kind = "none" ->
                    /\ AfterFailure
                    /\ UNCHANGED location_cache
               [] out.kind = "error" ->
                    /\ IF out.error \in (IF attempt = 0 THEN CaughtByPrimary
                                         ELSE CaughtByFallback)
                       THEN AfterFailure
                       ELSE Propagate(op, out.error)
                    /\ UNCHANGED location_cache
    /\ IF request_count % 10 = 0
       THEN cache_file' \in SaveOutcomes(location_cache', cache_file)
       ELSE UNCHANGED cache_file
    /\ total_queries' = total_queries + 1
    /\ UNCHANGED <<other_last_request_time, thread, stamps, write_failed, request_count,
                   last_request_time, now, current_time, flushes, sleeps,
                   passes, lookups>>

\* The external query of the primary attempt (lines 280-309) or of one word of
\* the fallback loop (lines 320-334), and what the source does with its outcome.
QueryWith(outcomes) ==
    /\ pc = "query"
    /\ \E term \in (IF attempt = 0 THEN PrimaryTermsOf[location_str]
                    ELSE {WordsOf[location_str][attempt]}),
          out \in outcomes :
          /\ queries' = Append(queries, [term |-> term, attempt |-> attempt,
                                          kind |-> out.kind])
          /\ last_query_at' = now
          /\ CASE out.kind = "location" ->
                    /\ location_cache' =
                           Put(location_cache, CacheKey(location_str, term),
                               GeocodeResult(location_str, out.location))
                    /\ Complete(op, tweets, location_str,
                                GeocodeResult(location_str, out.location))
               [] out.kind = "none" ->
                    /\ AfterFailure
                    /\ UNCHANGED location_cache
               [] out.kind = "error" ->
                    /\ IF out.error \in (IF attempt = 0 THEN CaughtByPrimary
                                         ELSE CaughtByFallback)
                       THEN AfterFailure
                       ELSE Propagate(op, out.error)
                    /\ UNCHANGED location_cache
    /\ total_queries' = total_queries + 1
    /\ UNCHANGED <<other_last_request_time, thread, stamps, write_failed, request_count,
                   last_request_time, cache_file, now, current_time, flushes, sleeps,
                   passes, lookups>>

Query == QueryWith(GeocodeOutcomes)

\* The same with the service that knows one place.
LagQuery == QueryWith(LagOutcomes)

(***************************************************************************)
(* parse_tweet_location and parse_tweets_location.                         *)
(***************************************************************************)
\* extract_location_from_tweet tabulated over the posts of the model.
CandidatesOf == [t \in Tweets |-> extract_location_from_tweet(t)]

\* geocode_location called whatever the candidate: the variant C10 tells apart.
ParseTweet_AlwaysGeocode(o, ts, lk) ==
    \E c \in CandidatesOf[Head(ts)] : GeocodeBegin(o, ts, c, lk)

\* Lines 348-360 for the post Head(ts), called from the public method o.
ParseTweet(o, ts, lk) ==
    \E c \in CandidatesOf[Head(ts)] :
        IF Truthy(c)
        THEN GeocodeBegin(o, ts, c, lk)
        ELSE /\ Complete(o, ts, c, NoneObj)
             /\ lookups' = lk

parse_tweet_location(tweet) ==
    /\ op = "idle"
    /\ queries' = <<>>
    /\ flushes' = 0
    /\ sleeps' = 0
    /\ passes' = 0
    /\ ParseTweet("parse_tweet_location", <<tweet>>, 0)
    /\ UNCHANGED <<other, parser, cache_file, now, current_time, last_query_at>>

parse_tweets_location(ts) ==
    /\ op = "idle"
    /\ request_count < MaxRequests
    /\ op' = "parse_tweets_location"
    /\ pc' = "loop"
    /\ tweets' = ts
    /\ result' = <<>>
    /\ queries' = <<>>
    /\ flushes' = 0
    /\ sleeps' = 0
    /\ passes' = 0
    /\ lookups' = 0
    /\ UNCHANGED <<other, parser, cache_file, now, location_str, attempt, ret, current_time,
                   last_query_at>>

\* One turn of the loop of line 375.
BatchNext ==
    /\ op = "parse_tweets_location"
    /\ pc = "loop"
    /\ tweets # <<>>
    /\ ParseTweet(op, tweets, lookups)
    /\ UNCHANGED <<other, parser, cache_file, now, current_time, queries, flushes, sleeps,
                   passes, last_query_at>>

\* A failed save that empties the in-memory cache: the variant C19 tells apart.
BatchEnd_ResetOnFailure ==
    /\ op = "parse_tweets_location"
    /\ pc = "loop"
    /\ tweets = <<>>
    /\ cache_file' \in SaveOutcomes(location_cache, cache_file)
    /\ location_cache' = IF cache_file' = FileHolding(location_cache)
                         THEN location_cache ELSE <<>>
    /\ flushes' = flushes + 1
    /\ write_failed' = FailedSo(write_failed, location_cache, cache_file')
    /\ ret' = Returned(op, [i \in 1..Len(result) |-> Original(result[i])], result)
    /\ op' = "idle"
    /\ pc' = "-"
    /\ result' = <<>>
    /\ UNCHANGED <<other_last_request_time, thread, stamps, total_queries,
                   request_count, last_request_time, now, location_str, attempt,
                   tweets, current_time, queries, sleeps, passes, lookups,
                   last_query_at>>

\* The return without the save of line 379: the variant C16 tells apart.
BatchEnd_NoSave ==
    /\ op = "parse_tweets_location"
    /\ pc = "loop"
    /\ tweets = <<>>
    /\ ret' = Returned(op, [i \in 1..Len(result) |-> Original(result[i])], result)
    /\ op' = "idle"
    /\ pc' = "-"
    /\ result' = <<>>
    /\ UNCHANGED <<other, parser, cache_file, now, location_str, attempt, tweets,
                   current_time, history>>

\* Lines 378-381: the save after the loop, and the return.
BatchEnd ==
    /\ op = "parse_tweets_location"
    /\ pc = "loop"
    /\ tweets = <<>>
    /\ cache_file' \in SaveOutcomes(location_cache, cache_file)
    /\ flushes' = flushes + 1
    /\ write_failed' = FailedSo(write_failed, location_cache, cache_file')
    /\ ret' = Returned(op, [i \in 1..Len(result) |-> Original(result[i])], result)
    /\ op' = "idle"
    /\ pc' = "-"
    /\ result' = <<>>
    /\ UNCHANGED <<other_last_request_time, thread, stamps, total_queries, parser, now, location_str, attempt, tweets, current_time, queries,
                   sleeps, passes, lookups, last_query_at>>

(***************************************************************************)
(* add_known_location.                                                     *)
(***************************************************************************)
\* str.replace(' ', '_')
ReplaceSpaces(s) == [i \in 1..Len(s) |-> IF s[i] = " " THEN "_" ELSE s[i]]

OrEmpty(v) == IF Truthy(v) THEN v ELSE <<>>

\* Lines 412-428: the result dictionary of a manual entry.
KnownResult(s, latitude, longitude, address, city, country) ==
    LET addr == IF Truthy(address) THEN address
                ELSE OrEmpty(city) \o <<","," ">> \o OrEmpty(country)
    IN  [input |-> s, address |-> addr, latitude |-> latitude, longitude |-> longitude,
         raw |-> [place_id |-> <<"m","a","n","u","a","l","_">> \o ReplaceSpaces(s),
                  display_name |-> addr,
                  address |-> [city |-> city, country |-> country]]]

\* Two of the five variations only: the variant C12 tells apart.
Variations_Two(s) == { <<"i","n"," ">> \o s, <<"f","r","o","m"," ">> \o s }

\* Lines 435-441.
Variations(s) ==
    { <<"i","n"," ">> \o s, <<"f","r","o","m"," ">> \o s, <<"a","t"," ">> \o s, <<"n","e","a","r"," ">> \o s, <<"t","o"," ">> \o s }

\* A rebuilt cache that keeps the new entries only: the variant C7 tells apart.
PutVariations_Only(cache, s, value) == [k \in Variations(s) \cup {s} |-> value]

\* Lines 443-444: every variation is given the same result dictionary.
PutVariations(cache, s, value) ==
    [k \in DOMAIN cache \cup Variations(s) |->
        IF k \in Variations(s) THEN value ELSE cache[k]]

add_known_location(s, latitude, longitude, address, city, country) ==
    /\ op = "idle"
    /\ LET value == KnownResult(s, latitude, longitude, address, city, country)
           first == Put(location_cache, s, value)
       IN  /\ location_cache' = PutVariations(first, s, value)
           /\ \E saved \in SaveOutcomes(first, cache_file) :
                  /\ cache_file' \in SaveOutcomes(location_cache', saved)
                  /\ write_failed' =
                         FailedSo(FailedSo(write_failed, first, saved),
                                  location_cache', cache_file')
    /\ flushes' = 2
    /\ queries' = <<>>
    /\ sleeps' = 0
    /\ passes' = 0
    /\ lookups' = 0
    /\ ret' = Returned("add_known_location", s, NoneObj)
    /\ UNCHANGED <<other_last_request_time, thread, stamps, total_queries, request_count,
                   last_request_time, now, op, pc, location_str, attempt, tweets, result,
                   current_time, last_query_at>>

(***************************************************************************)
(* TwitterStream.collect_tweets_by_search with process_data set, as far as *)
(* the parser is concerned: the posts the search API returns, page after   *)
(* page, go through parse_tweet_location one by one (twitter_stream.py,    *)
(* lines 383-396), and the collected posts are returned (line 432).        *)
(***************************************************************************)
collect_tweets_by_search(ts) ==
    /\ op = "idle"
    /\ request_count < MaxRequests
    /\ op' = "collect_tweets_by_search"
    /\ pc' = "loop"
    /\ tweets' = ts
    /\ result' = <<>>
    /\ queries' = <<>>
    /\ flushes' = 0
    /\ sleeps' = 0
    /\ passes' = 0
    /\ lookups' = 0
    /\ UNCHANGED <<other, parser, cache_file, now, location_str, attempt, ret,
                   current_time, last_query_at>>

\* One turn of the loop of line 383.
CollectNext ==
    /\ op = "collect_tweets_by_search"
    /\ pc = "loop"
    /\ tweets # <<>>
    /\ ParseTweet(op, tweets, lookups)
    /\ UNCHANGED <<other, parser, cache_file, now, current_time, queries, flushes,
                   sleeps, passes, last_query_at>>

\* Lines 431-432: the return.
CollectEnd ==
    /\ op = "collect_tweets_by_search"
    /\ pc = "loop"
    /\ tweets = <<>>
    /\ ret' = Returned(op, [i \in 1..Len(result) |-> Original(result[i])], result)
    /\ op' = "idle"
    /\ pc' = "-"
    /\ result' = <<>>
    /\ UNCHANGED <<other, parser, cache_file, now, location_str, attempt, tweets,
                   current_time, history>>

(***************************************************************************)
(* The process is killed and started again: __init__ (lines 85-98) runs on  *)
(* the file the killed process left.  _save_cache (lines 113-115) opens the *)
(* file with 'w', which empties it, and then writes: a process killed in    *)
(* between leaves a file json.load cannot parse.                            *)
(***************************************************************************)
\* Control is at a call of _save_cache: line 379, or line 133 when the count
\* reaches a multiple of 10.
SaveInProgress ==
    \/ op = "parse_tweets_location" /\ pc = "loop" /\ tweets = <<>>
    \/ pc = "stamp" /\ (request_count + 1) % 10 = 0

\* The files a kill can leave: the file as it is; when a save is in progress,
\* also the emptied file and the file written in full.
CrashedFiles ==
    IF SaveInProgress THEN {cache_file, FileCorrupt, FileHolding(location_cache)}
    ELSE {cache_file}

CrashRestart ==
    /\ now <= MaxTime
    /\ cache_file' \in CrashedFiles
    /\ location_cache' = _load_cache(cache_file')
    /\ request_count' = 0
    /\ last_request_time' = 0
    /\ op' = "idle"
    /\ pc' = "-"
    /\ location_str' = None
    /\ attempt' = 0
    /\ current_time' = 0
    /\ tweets' = <<>>
    /\ result' = <<>>
    /\ ret' = Returned("__init__", NoneObj, NoneObj)
    /\ queries' = <<>>
    /\ flushes' = 0
    /\ sleeps' = 0
    /\ passes' = 0
    /\ lookups' = 0
    /\ total_queries' = 0
    /\ write_failed' = FALSE
    /\ UNCHANGED <<other_last_request_time, thread, stamps, now, last_query_at>>

(***************************************************************************)
(* A second LocationParser of the same process: one pass of its            *)
(* _respect_rate_limit (lines 122-129, on its own last_request_time) and   *)
(* the query that follows, while the first parser is idle.                 *)
(***************************************************************************)
OtherParserRequest ==
    /\ op = "idle"
    /\ now <= MaxTime
    /\ LET elapsed == now - other_last_request_time
           sent == IF elapsed < OneSecond THEN now + (OneSecond - elapsed) ELSE now
       IN  /\ now' = sent
           /\ other_last_request_time' = sent
           /\ last_query_at' = sent
    /\ UNCHANGED <<parser, cache_file, control, current_time, queries, flushes, sleeps,
                   passes, lookups, thread, stamps, total_queries, write_failed>>

(***************************************************************************)
(* Two threads calling geocode_location on the same LocationParser, with   *)
(* single-word arguments.  Each numbered line of _respect_rate_limit that  *)
(* reads or writes an attribute of the parser is a step of its own; a      *)
(* sleeping thread wakes when the clock has reached its wake time.         *)
(***************************************************************************)
ThreadFrame ==
    UNCHANGED <<control, current_time, queries, flushes, sleeps, passes, lookups,
                other_last_request_time>>

ThreadLocalStep == ThreadFrame /\ UNCHANGED <<total_queries, write_failed>>

\* Lines 268-276: the lookup, the empty-input test, and the way to the limiter.
ThreadCall(t, s) ==
    /\ op = "idle"
    /\ thread[t].pc = "idle"
    /\ stamps + Cardinality({u \in Threads : thread[u].pc # "idle"}) < MaxThreadCalls
    /\ thread' = [thread EXCEPT ![t] =
                      IF s \in DOMAIN location_cache \/ ~Truthy(s)
                      THEN [@ EXCEPT !.s = None]
                      ELSE [@ EXCEPT !.pc = "rate_limit", !.s = s]]
    /\ UNCHANGED <<parser, cache_file, now, last_query_at, stamps>>
    /\ ThreadLocalStep

\* A limiter entered by one thread at a time: the variant C21 tells apart.
ThreadRead_Locked(t) ==
    /\ op = "idle"
    /\ thread[t].pc = "rate_limit"
    /\ \A u \in Threads \ {t} :
           thread[u].pc \notin {"elapsed", "sleep", "sleeping", "stamp", "count"}
    /\ thread' = [thread EXCEPT ![t].pc = "elapsed", ![t].current_time = now]
    /\ UNCHANGED <<parser, cache_file, now, last_query_at, stamps>>
    /\ ThreadLocalStep

\* Line 122: current_time = time.time()
ThreadRead(t) ==
    /\ op = "idle"
    /\ thread[t].pc = "rate_limit"
    /\ thread' = [thread EXCEPT ![t].pc = "elapsed", ![t].current_time = now]
    /\ UNCHANGED <<parser, cache_file, now, last_query_at, stamps>>
    /\ ThreadLocalStep

\* Line 123: elapsed = current_time - self.last_request_time
ThreadElapsed(t) ==
    /\ thread[t].pc = "elapsed"
    /\ thread' = [thread EXCEPT ![t].pc = "sleep",
                                ![t].elapsed = thread[t].current_time - last_request_time,
                                ![t].seen = stamps]
    /\ UNCHANGED <<parser, cache_file, now, last_query_at, stamps>>
    /\ ThreadLocalStep

\* Lines 125-126: the test, and the start of time.sleep(1.0 - elapsed).
ThreadSleep(t) ==
    /\ thread[t].pc = "sleep"
    /\ thread' = [thread EXCEPT ![t] =
                      IF thread[t].elapsed < OneSecond
                      THEN [@ EXCEPT !.pc = "sleeping",
                                     !.wake = now + (OneSecond - thread[t].elapsed)]
                      ELSE [@ EXCEPT !.pc = "stamp"]]
    /\ UNCHANGED <<parser, cache_file, now, last_query_at, stamps>>
    /\ ThreadLocalStep

\* time.sleep returns.
ThreadWake(t) ==
    /\ thread[t].pc = "sleeping"
    /\ now >= thread[t].wake
    /\ thread' = [thread EXCEPT ![t].pc = "stamp"]
    /\ UNCHANGED <<parser, cache_file, now, last_query_at, stamps>>
    /\ ThreadLocalStep

\* Line 128, and the read of self.request_count of line 129.
ThreadStamp(t) ==
    /\ thread[t].pc = "stamp"
    /\ last_request_time' = now
    /\ stamps' = stamps + 1
    /\ thread' = [thread EXCEPT ![t].pc = "count", ![t].loaded = request_count,
                                ![t].stamp_no = stamps + 1, ![t].stamped_at = now]
    /\ UNCHANGED <<location_cache, request_count, cache_file, now, last_query_at>>
    /\ ThreadLocalStep

\* The write of self.request_count of line 129, and lines 132-133.
ThreadCount(t) ==
    /\ thread[t].pc = "count"
    /\ request_count' = thread[t].loaded + 1
    /\ IF (thread[t].loaded + 1) % 10 = 0
       THEN /\ cache_file' \in SaveOutcomes(location_cache, cache_file)
            /\ write_failed' = FailedSo(write_failed, location_cache, cache_file')
       ELSE UNCHANGED <<cache_file, write_failed>>
    /\ thread' = [thread EXCEPT ![t].pc = "query"]
    /\ UNCHANGED <<location_cache, last_request_time, now, last_query_at, stamps,
                   total_queries>>
    /\ ThreadFrame

\* Lines 280-309 for a single word, and the return: a result is stored and
\* returned; anything else ends in return None, the argument having one word.
ThreadQuery(t) ==
    /\ thread[t].pc = "query"
    /\ \E out \in GeocodeOutcomes :
           location_cache' =
               IF out.kind = "location"
               THEN Put(location_cache, thread[t].s, GeocodeResult(thread[t].s, out.location))
               ELSE location_cache
    /\ last_query_at' = now
    /\ thread' = [thread EXCEPT ![t] =
                      [@ EXCEPT !.pc = "idle", !.s = None, !.current_time = 0,
                                !.elapsed = 0, !.wake = 0, !.loaded = 0,
                                !.sent_at = now]]
    /\ total_queries' = total_queries + 1
    /\ UNCHANGED <<request_count, last_request_time, cache_file, now, stamps,
                   write_failed>>
    /\ ThreadFrame

\* Time passes while a thread sleeps.
ThreadClock ==
    /\ \E t \in Threads : thread[t].pc = "sleeping" /\ now < thread[t].wake
    /\ now' = now + 1
    /\ UNCHANGED <<parser, cache_file, last_query_at, thread, stamps>>
    /\ ThreadLocalStep

(***************************************************************************)
(* The clock, and the specifications.                                      *)
(***************************************************************************)
Tick ==
    /\ now < MaxTime
    /\ now' = now + 1
    /\ UNCHANGED <<other, parser, cache_file, control, current_time, history>>

\* The Gateway and the manual entry, with the clock running.
Next ==
    \/ Tick
    \/ \E s \in GeoInputs : geocode_location(s)
    \/ RateLimitRead
    \/ RateLimitSleep
    \/ RateLimitStamp
    \/ Query
    \/ \E s \in KnownNames, la \in KnownLatitudes, lo \in KnownLongitudes :
           add_known_location(s, la, lo, None, <<"P","a","r","i","s">>, None)

Spec == Init /\ [][Next]_vars

\* Every public method of the parser.  The clock moves only when the parser
\* sleeps: no branch of the source reads the time but the one that decides how
\* long to sleep, so the other variables take the same values with or without
\* the ticks.
NextPipeline ==
    \/ \E s \in PipelineGeoInputs : geocode_location(s)
    \/ RateLimitRead
    \/ RateLimitSleep
    \/ RateLimitStamp
    \/ Query
    \/ \E t \in Tweets : parse_tweet_location(t)
    \/ \E ts \in SeqsUpTo(Tweets, MaxBatch) : parse_tweets_location(ts)
    \/ BatchNext
    \/ BatchEnd
    \/ \E s \in KnownNames, la \in KnownLatitudes, lo \in KnownLongitudes :
           add_known_location(s, la, lo, None, <<"P","a","r","i","s">>, None)

SpecPipeline == Init /\ [][NextPipeline]_vars

\* The manual entry and the Gateway on the name entered and its variations.
NextManual ==
    \/ \E s \in ManualGeoInputs : geocode_location(s)
    \/ RateLimitRead
    \/ RateLimitSleep
    \/ RateLimitStamp
    \/ Query
    \/ \E s \in KnownNames, la \in KnownLatitudes, lo \in KnownLongitudes :
           add_known_location(s, la, lo, None, <<"P","a","r","i","s">>, None)

SpecManual == Init /\ [][NextManual]_vars

\* One long list through parse_tweets_location.
NextLong ==
    \/ parse_tweets_location(LongPosts)
    \/ BatchNext
    \/ BatchEnd
    \/ RateLimitRead
    \/ RateLimitSleep
    \/ RateLimitStamp
    \/ Query

SpecLong == Init /\ [][NextLong]_vars

\* The Gateway on inputs of every kind the primary query tells apart.
NextTerms ==
    \/ \E s \in TermInputs : geocode_location(s)
    \/ RateLimitRead
    \/ RateLimitSleep
    \/ RateLimitStamp
    \/ Query

SpecTerms == Init /\ [][NextTerms]_vars

\* Lists through parse_tweets_location, in a process that can be killed and
\* started again at any point.
NextCrash ==
    \/ \E ts \in SeqsUpTo(Tweets, MaxBatch) : parse_tweets_location(ts)
    \/ BatchNext
    \/ BatchEnd
    \/ RateLimitRead
    \/ RateLimitSleep
    \/ RateLimitStamp
    \/ Query
    \/ CrashRestart

SpecCrash == Init /\ [][NextCrash]_vars

\* A run over many strings, next to parse_tweet_location and add_known_location:
\* the caller asks for the first string not yet cached or, again, for the last one
\* that is.
NextLag ==
    \/ \E i \in 1..LagTowns :
           /\ \A j \in 1..(i - 1) : LagInputs[j] \in DOMAIN location_cache
           /\ \A j \in (i + 1)..LagTowns : LagInputs[j] \notin DOMAIN location_cache
           /\ geocode_location(LagInputs[i])
    \/ RateLimitRead
    \/ RateLimitSleep
    \/ RateLimitStamp
    \/ LagQuery
    \/ \E t \in Tweets : parse_tweet_location(t)
    \/ \E s \in KnownNames : add_known_location(s, 48, 2, None, <<"P","a","r","i","s">>, None)

SpecLag == Init /\ [][NextLag]_vars

\* The Gateway alone, every statement it has started being carried on: a sleep
\* ends, and a call of the service returns or raises.
NextGateway ==
    \/ \E s \in GeoInputs : geocode_location(s)
    \/ RateLimitRead
    \/ RateLimitSleep
    \/ RateLimitStamp
    \/ Query

SpecGateway ==
    /\ Init
    /\ [][NextGateway]_vars
    /\ WF_vars(RateLimitRead)
    /\ WF_vars(RateLimitSleep)
    /\ WF_vars(RateLimitStamp)
    /\ WF_vars(Query)

\* Collection runs.
NextCollect ==
    \/ \E ts \in SeqsUpTo(Tweets, MaxBatch) : collect_tweets_by_search(ts)
    \/ CollectNext
    \/ CollectEnd
    \/ RateLimitRead
    \/ RateLimitSleep
    \/ RateLimitStamp
    \/ Query

SpecCollect == Init /\ [][NextCollect]_vars

\* Two parsers in one process.  The clock moves only in the sleeps, so that each
\* parser sends its query at the time of its own stamp.
NextProcess ==
    \/ \E s \in PipelineGeoInputs : geocode_location(s)
    \/ RateLimitRead
    \/ RateLimitSleep
    \/ RateLimitStamp
    \/ Query
    \/ OtherParserRequest

SpecProcess == Init /\ [][NextProcess]_vars

\* Two threads on one parser.  The clock moves only while a thread sleeps.
NextThreads ==
    \/ \E t \in Threads, s \in ThreadInputs : ThreadCall(t, s)
    \/ \E t \in Threads : ThreadRead(t)
    \/ \E t \in Threads : ThreadElapsed(t)
    \/ \E t \in Threads : ThreadSleep(t)
    \/ \E t \in Threads : ThreadWake(t)
    \/ \E t \in Threads : ThreadStamp(t)
    \/ \E t \in Threads : ThreadCount(t)
    \/ \E t \in Threads : ThreadQuery(t)
    \/ ThreadClock

SpecThreads == Init /\ [][NextThreads]_vars

(***************************************************************************)
(* The decomposition of a geocoded address into city, state and country,   *)
(* as update_tweet_sentiment_location (process_tweets.py, lines 137-162),  *)
(* insert_tweet (db_writer.py, lines 123-142) and insert_tweets            *)
(* (db_writer.py, lines 248-268) each do it before they write the row.     *)
(***************************************************************************)
\* str.split(sep) for a separator that is not empty.
RECURSIVE SplitOn(_, _)
SplitOn(s, sep) ==
    LET hits == Occurrences(s, sep)
    IN  IF hits = {} THEN <<s>>
        ELSE LET i == SetMin(hits)
             IN  <<SubSeq(s, 1, i - 1)>> \o SplitOn(SubSeq(s, i + Len(sep), Len(s)), sep)

\* sep.join(parts)
RECURSIVE JoinWith(_, _)
JoinWith(parts, sep) ==
    IF parts = <<>> THEN <<>>
    ELSE IF Len(parts) = 1 THEN parts[1]
    ELSE parts[1] \o sep \o JoinWith(Tail(parts), sep)

\* The addresses of the model: up to MaxParts components joined by ", ", two with
\* an empty component, and one with a comma and no space.
AddressComponents == { <<"P","a","r","i","s">>, <<"I","l","e","-","d","e","-","F","r","a","n","c","e">>, <<"F","r","a","n","c","e">> }

PartLists ==
    SeqsUpTo(AddressComponents, MaxParts)
        \cup { << <<>>, <<>> >>, << <<"P","a","r","i","s">>, <<>>, <<"F","r","a","n","c","e">> >> }

Addresses == {JoinWith(p, <<","," ">>) : p \in PartLists} \cup { <<"P","a","r","i","s",",","F","r","a","n","c","e">> }

\* The 'geocoded' values: None, a result with no address, results with one.
GeocodedValues ==
    {NoneObj} \cup {[address |-> a, latitude |-> 48, longitude |-> 2] :
                       a \in Addresses \cup {None}}

\* The 'location' dictionaries parse_tweet_location attaches to a post.
LocationData == {[raw_location |-> None, geocoded |-> g] : g \in GeocodedValues}

\* The first component taken for the city: the variant C26 tells apart.
DecomposeAddress_FromFront(geocoded) ==
    LET unset == [city |-> None, state_province |-> None, country |-> None]
    IN  IF geocoded = NoneObj THEN unset
        ELSE LET location_address == geocoded.address
                 address_parts == IF Truthy(location_address)
                                  THEN SplitOn(location_address, <<","," ">>) ELSE <<>>
                 n == Len(address_parts)
             IN  IF n >= 3
                 THEN [city |-> address_parts[1], state_province |-> address_parts[n - 1],
                       country |-> address_parts[n]]
                 ELSE IF n = 2
                 THEN [unset EXCEPT !.state_province = address_parts[1],
                                    !.country = address_parts[2]]
                 ELSE IF n = 1
                 THEN [unset EXCEPT !.country = address_parts[1]]
                 ELSE unset

\* `if geocoded:` and the lines under it: the three components, None when not set.
DecomposeAddress(geocoded) ==
    LET unset == [city |-> None, state_province |-> None, country |-> None]
    IN  IF geocoded = NoneObj THEN unset
        ELSE LET location_address == geocoded.address
                 address_parts == IF Truthy(location_address)
                                  THEN SplitOn(location_address, <<","," ">>) ELSE <<>>
                 n == Len(address_parts)
             IN  IF n >= 3
                 THEN [city |-> address_parts[n - 2], state_province |-> address_parts[n - 1],
                       country |-> address_parts[n]]
                 ELSE IF n = 2
                 THEN [unset EXCEPT !.state_province = address_parts[1],
                                    !.country = address_parts[2]]
                 ELSE IF n = 1
                 THEN [unset EXCEPT !.country = address_parts[1]]
                 ELSE unset

DecomposeAddressOf == [g \in GeocodedValues |-> DecomposeAddress(g)]

RowFrame ==
    UNCHANGED <<other, parser, cache_file, now, op, pc, location_str, attempt, tweets,
                result, current_time, history>>

\* process_tweets.update_tweet_sentiment_location(tweet_id, .., location_data)
update_tweet_sentiment_location(location_data) ==
    /\ op = "idle"
    /\ ret' = Returned("update_tweet_sentiment_location", location_data,
                       DecomposeAddressOf[location_data.geocoded])
    /\ RowFrame

\* db_writer.insert_tweet(tweet, user, .., location_data): location_data may be
\* None, and then no component is set.
insert_tweet(location_data) ==
    /\ op = "idle"
    /\ ret' = Returned("insert_tweet", location_data,
                       IF location_data = NoneObj THEN DecomposeAddressOf[NoneObj]
                       ELSE DecomposeAddressOf[location_data.geocoded])
    /\ RowFrame

\* db_writer.insert_tweets(tweets, users, .., location_data_list): one row per
\* post, from the entry of the list at its index.
insert_tweets(location_data_list) ==
    /\ op = "idle"
    /\ ret' = Returned("insert_tweets", location_data_list,
                       [i \in 1..Len(location_data_list) |->
                           DecomposeAddressOf[location_data_list[i].geocoded]])
    /\ RowFrame

\* The lists handed to insert_tweets: two entries, from four addresses.
LocationDataLists ==
    LET few == {d \in LocationData :
                   /\ d.geocoded # NoneObj
                   /\ d.geocoded.address \in
                          { None, <<"F","r","a","n","c","e">>, <<"I","l","e","-","d","e","-","F","r","a","n","c","e",","," ","F","r","a","n","c","e">>,
                            <<"P","a","r","i","s",","," ","I","l","e","-","d","e","-","F","r","a","n","c","e",","," ","F","r","a","n","c","e">> }}
    IN  {<<a, b>> : a \in few, b \in few}

NextRows ==
    \/ \E d \in LocationData : update_tweet_sentiment_location(d)
    \/ \E d \in LocationData \cup {NoneObj} : insert_tweet(d)
    \/ \E l \in LocationDataLists : insert_tweets(l)

SpecRows == Init /\ [][NextRows]_vars

(***************************************************************************)
(* The Extractor alone, over a larger set of posts.                        *)
(***************************************************************************)
PostGeos == { NoneObj, [coordinates |-> <<>>], [coordinates |-> <<51, -1>>] }

PostPlaces ==
    { NoneObj, [full_name |-> None], [full_name |-> <<"T","w","i","t","t","e","r">>],
      [full_name |-> <<"P","a","r","i","s",","," ","F","r","a","n","c","e">>] }

ProfileLocations ==
    { None, <<>>, <<"T","w","i","t","t","e","r">>, <<" ","h","o","m","e"," ">>, <<" "," "," ">>, <<" ","M","a","n","c","h","e","s","t","e","r",","," ","U","K"," ">> }

ProfileDescriptions == { None, <<"F","a","n"," ","f","r","o","m"," ","R","o","m","e">>, <<"a","l","w","a","y","s"," ","a","t"," ","H","o","m","e">> }

PostTexts == { <<>>, <<"h","e","l","l","o">>, <<"A","m","a","z","i","n","g"," ","m","a","t","c","h"," ","i","n"," ","L","o","n","d","o","n","!">>, <<"f","l","y","i","n","g"," ","t","o"," ","P","a","r","i","s"," ","T","e","x","a","s">> }

PostUsers ==
    {NoUser} \cup {[location |-> l, description |-> d] :
                      l \in ProfileLocations, d \in ProfileDescriptions}

Posts ==
    {[geo |-> g, place |-> p, user |-> u, text |-> x] :
        g \in PostGeos, p \in PostPlaces, u \in PostUsers, x \in PostTexts}

\* extract_location_from_tweet tabulated over them.
ExtractedFrom == [t \in Posts |-> extract_location_from_tweet(t)]

\* A public call of extract_location_from_tweet(tweet).
ExtractCall(tweet) ==
    /\ op = "idle"
    /\ \E c \in ExtractedFrom[tweet] :
           ret' = Returned("extract_location_from_tweet", tweet, c)
    /\ UNCHANGED <<other, parser, cache_file, now, op, pc, location_str, attempt, tweets,
                   result, current_time, history>>

NextExtract == \E t \in Posts : ExtractCall(t)

SpecExtract == Init /\ [][NextExtract]_vars

(***************************************************************************)
(* Properties of the Geocoder Gateway and the Location Cache.              *)
(***************************************************************************)
\* C1: whenever s is a key of the in-memory cache, geocode_location(s) returns
\* exactly the cached value at once, with no external query, no rate-limit pass
\* or sleep, no flush, and the cache, request_count, last_request_time, the file
\* and the clock unchanged.
C1_CacheHit ==
    [][\A s \in GeoInputs :
          (s \in DOMAIN location_cache /\ geocode_location(s)) =>
              /\ op' = "idle"
              /\ ret' = Returned("geocode_location", s, location_cache[s])
              /\ queries' = <<>>
              /\ sleeps' = 0
              /\ passes' = 0
              /\ flushes' = 0
              /\ UNCHANGED <<location_cache, request_count, last_request_time,
                             cache_file, now>>]_vars

\* A hit on an entry an earlier call of geocode_location stored.
C1_Witness ==
    /\ op = "idle"
    /\ ret.op = "geocode_location"
    /\ ret.value # NoneObj
    /\ queries = <<>>
    /\ lookups = 1
    /\ request_count > 0
    /\ location_cache[ret.arg] = ret.value

\* C2, as stated: for every non-empty s, a call of geocode_location(s) that
\* directly follows a call of geocode_location(s) returns what the first call
\* returned and makes no external query.
C2_IdempotentAsStated ==
    [][\A s \in GeoInputs \ {<<>>} :
          (op = "idle" /\ ret.op = "geocode_location" /\ ret.arg = s
              /\ geocode_location(s)) =>
              /\ op' = "idle"
              /\ ret' = ret
              /\ queries' = <<>>]_vars

\* C2, amended: the same, when the first call returned a GeocodeResult (a call
\* that returned None stored nothing, and the second call goes to the service
\* again).
C2_Idempotent ==
    [][\A s \in GeoInputs \ {<<>>} :
          (op = "idle" /\ ret.op = "geocode_location" /\ ret.arg = s
              /\ ret.value # NoneObj /\ geocode_location(s)) =>
              /\ op' = "idle"
              /\ ret' = ret
              /\ queries' = <<>>]_vars

\* A second call for a string only geocode_location can have stored, answered
\* from the cache.
C2_Witness ==
    /\ op = "idle"
    /\ ret.op = "geocode_location"
    /\ ret.arg = <<"P","a","r","i","s"," ","T","e","x","a","s">>
    /\ ret.value # NoneObj
    /\ queries = <<>>
    /\ passes = 0
    /\ lookups = 1

\* C3: any two consecutive external queries of one parser, of the same call or of
\* different calls, are sent at least one second apart.
C3_QueriesOneSecondApart ==
    [][(pc = "query" /\ queries' # queries /\ last_query_at # -1) =>
          now - last_query_at >= OneSecond]_vars

\* The tokens of s that are gazetteer entries, by index and in token order; none
\* when s is a single token.
C4_Tokens(s) ==
    LET words == Split(s)
    IN  IF Len(words) > 1
        THEN SelectSeq([i \in 1..Len(words) |-> i],
                       LAMBDA i : Lower(words[i]) \in MAJOR_LOCATIONS)
        ELSE <<>>

C4_TokensOf == [s \in GeoInputs |-> C4_Tokens(s)]

\* C4: a call that missed the cache sends the primary query first; only after a
\* failed query does it go on, to the gazetteer tokens of a multi-token input in
\* token order, one query per token, each after a rate-limit pass of its own; the
\* first query that succeeds ends the call, and its result is stored and
\* returned; the call returns None only when every attempt was made and failed.
C4_FallbackCascade ==
    /\ pc = "query" => passes = Len(queries) + 1
    /\ (op = "idle" /\ ret.op = "geocode_location" /\ ret.exc = "none"
           /\ queries # <<>>) =>
          LET s == ret.arg
              toks == C4_TokensOf[s]
              n == Len(queries)
          IN  /\ queries[1].attempt = 0
              /\ n <= 1 + Len(toks)
              /\ \A i \in 2..n : /\ queries[i].attempt = toks[i - 1]
                                 /\ queries[i].term = Split(s)[toks[i - 1]]
              /\ \A i \in 1..(n - 1) : queries[i].kind # "location"
              /\ passes = n
              /\ IF queries[n].kind = "location"
                 THEN /\ ret.value # NoneObj
                      /\ s \in DOMAIN location_cache
                      /\ location_cache[s] = ret.value
                 ELSE /\ ret.value = NoneObj
                      /\ n = 1 + Len(toks)

\* The primary query and the first token failed, the second token succeeded.
C4_Witness ==
    /\ op = "idle"
    /\ ret.op = "geocode_location"
    /\ Len(queries) = 3
    /\ queries[3].kind = "location"
    /\ queries[2].kind = "error"
    /\ ret.value # NoneObj

\* C5: a query that succeeds stores its result under the argument of the call,
\* with the argument as its input field, and creates or changes no other entry,
\* whatever term was sent to the service; a query that fails leaves the cache as
\* it was.
C5_CacheKeyFidelity ==
    [][(pc = "query" /\ queries' # queries) =>
          IF queries'[Len(queries')].kind = "location"
          THEN /\ DOMAIN location_cache' = DOMAIN location_cache \cup {location_str}
               /\ location_cache'[location_str].input = location_str
               /\ \A k \in DOMAIN location_cache \ {location_str} :
                      location_cache'[k] = location_cache[k]
               /\ op = "geocode_location" =>
                      ret' = Returned("geocode_location", location_str,
                                      location_cache'[location_str])
          ELSE location_cache' = location_cache]_vars

\* A success whose query term was not the argument, and is not a key.
C5_Witness ==
    /\ op = "idle"
    /\ ret.op = "geocode_location"
    /\ ret.value # NoneObj
    /\ queries # <<>>
    /\ queries[Len(queries)].term # ret.arg
    /\ queries[Len(queries)].term \notin DOMAIN location_cache
    /\ ret.arg \in DOMAIN location_cache

\* C6: in every reachable state every entry of the cache has its key as its input
\* field.
C6_InputIsKey == \A k \in DOMAIN location_cache : location_cache[k].input = k

\* C7: no step removes a key of the cache, and the only step that changes the
\* value of an existing key is add_known_location.
C7_WriteOnce ==
    [][/\ DOMAIN location_cache \subseteq DOMAIN location_cache'
       /\ (\E k \in DOMAIN location_cache : location_cache'[k] # location_cache[k]) =>
              \E s \in KnownNames, la \in KnownLatitudes, lo \in KnownLongitudes :
                  add_known_location(s, la, lo, None, <<"P","a","r","i","s">>, None)]_vars

\* add_known_location has replaced the value of a key the file still holds with
\* its earlier value.
C7_Witness ==
    /\ ret.op = "add_known_location"
    /\ cache_file.state = "ok"
    /\ \E m \in cache_file.members :
           /\ m[1] = ret.arg
           /\ m[1] \in DOMAIN location_cache
           /\ location_cache[m[1]] # m[2]

(***************************************************************************)
(* Properties of the Extractor.                                            *)
(***************************************************************************)
\* The five signals of a post in priority order, each the set of candidates it
\* yields: coordinates, place full name, profile location (trimmed, non-empty,
\* not ignore-listed), biography mention, body mention.
C8_Signals(t) ==
    << IF t.geo # NoneObj /\ t.geo.coordinates # <<>>
       THEN {IntStr(t.geo.coordinates[1]) \o <<",">> \o IntStr(t.geo.coordinates[2])}
       ELSE {},
       IF t.place # NoneObj /\ Truthy(t.place.full_name)
       THEN {t.place.full_name} ELSE {},
       IF t.user # NoneObj /\ Truthy(t.user.location)
          /\ Strip(t.user.location) # <<>>
          /\ Lower(Strip(t.user.location)) \notin IGNORE_LOCATIONS
       THEN {Strip(t.user.location)} ELSE {},
       IF t.user # NoneObj THEN find_locations_in_text(t.user.description) ELSE {},
       find_locations_in_text(t.text) >>

C8_First(signals) ==
    IF \A i \in 1..Len(signals) : signals[i] = {} THEN {None}
    ELSE signals[SetMin({i \in 1..Len(signals) : signals[i] # {}})]

C8_ExpectedOf == [t \in Posts |-> C8_First(C8_Signals(t))]

\* C8: the Extractor returns a candidate of the highest-priority signal that
\* yields one, and None when no signal yields one.
C8_PriorityOrder ==
    ret.op = "extract_location_from_tweet" => ret.value \in C8_ExpectedOf[ret.arg]

\* C9: a profile location that is ignore-listed once trimmed and lowercased
\* yields nothing: the Extractor answers as it does for the same post without
\* the profile location, and where no coordinates or place name come first the
\* result is not that location but a biography mention, else a body mention,
\* else None.
C9_IgnoredProfileLocation ==
    (/\ ret.op = "extract_location_from_tweet"
     /\ ret.arg.user # NoneObj
     /\ Truthy(ret.arg.user.location)
     /\ Lower(Strip(ret.arg.user.location)) \in IGNORE_LOCATIONS) =>
        LET t == ret.arg
            bio == find_locations_in_text(t.user.description)
            body == find_locations_in_text(t.text)
        IN  /\ ret.value \in ExtractedFrom[[t EXCEPT !.user.location = None]]
            /\ (/\ ~(t.geo # NoneObj /\ t.geo.coordinates # <<>>)
                /\ ~(t.place # NoneObj /\ Truthy(t.place.full_name))) =>
                   /\ ret.value # Strip(t.user.location)
                   /\ ret.value \in (IF bio # {} THEN bio
                                     ELSE IF body # {} THEN body ELSE {None})

\* An ignore-listed profile location passed over for the biography mention.
C9_Witness ==
    /\ ret.op = "extract_location_from_tweet"
    /\ ret.arg.geo = NoneObj
    /\ ret.arg.place = NoneObj
    /\ ret.arg.user # NoneObj
    /\ ret.arg.user.location = <<"T","w","i","t","t","e","r">>
    /\ ret.arg.text = <<"A","m","a","z","i","n","g"," ","m","a","t","c","h"," ","i","n"," ","L","o","n","d","o","n","!">>
    /\ ret.value = <<"R","o","m","e">>

(***************************************************************************)
(* Properties of the Pipeline Orchestrator.                                *)
(***************************************************************************)
\* C10: for a post the Extractor yields no candidate for, parse_tweet_location
\* returns at once with raw_location and geocoded both None, without a cache
\* lookup or an external query, and with the cache, request_count and
\* last_request_time unchanged.
C10_NoCandidate ==
    [][\A t \in Tweets :
          (CandidatesOf[t] = {None} /\ parse_tweet_location(t)) =>
              /\ op' = "idle"
              /\ ret' = Returned("parse_tweet_location", t,
                                 [location |-> [raw_location |-> None,
                                                geocoded |-> NoneObj]] @@ t)
              /\ lookups' = 0
              /\ queries' = <<>>
              /\ passes' = 0
              /\ UNCHANGED <<location_cache, request_count, last_request_time>>]_vars

\* Such a call on a parser that has been to the service before.
C10_Witness ==
    /\ op = "idle"
    /\ ret.op = "parse_tweet_location"
    /\ ret.exc = "none"
    /\ ret.value.location.raw_location = None
    /\ ret.value.location.geocoded = NoneObj
    /\ lookups = 0
    /\ request_count > 0
    /\ location_cache # <<>>

\* An enriched post e carries a candidate of its post as raw_location, and as
\* geocoded either None or the cache entry of that candidate.
C11_Enriched(e) ==
    LET c == e.location.raw_location
        g == e.location.geocoded
    IN  /\ c \in CandidatesOf[Original(e)]
        /\ g # NoneObj => /\ c # None
                          /\ c \in DOMAIN location_cache
                          /\ location_cache[c] = g

\* C11: every enriched post carries the Extractor's candidate as raw_location and
\* the Gateway's result for it as geocoded: the cache entry of the candidate, or
\* None when the Gateway returned None, the candidate being kept; a geocoded is
\* never present without a raw_location.
C11_EnrichedLocation ==
    /\ \A i \in 1..Len(result) : C11_Enriched(result[i])
    /\ (op = "idle" /\ ret.op = "parse_tweets_location") =>
           \A i \in 1..Len(ret.value) : C11_Enriched(ret.value[i])
    /\ (op = "idle" /\ ret.op = "parse_tweet_location") =>
           /\ C11_Enriched(ret.value)
           /\ (ret.value.location.raw_location # None
                  /\ ret.value.location.geocoded = NoneObj) =>
                  /\ ret.value.location.raw_location \notin DOMAIN location_cache
                  /\ queries # <<>>
                  /\ \A i \in 1..Len(queries) : queries[i].kind # "location"

\* A candidate the Gateway found nothing for, kept as raw_location.
C11_Witness ==
    /\ op = "idle"
    /\ ret.op = "parse_tweet_location"
    /\ ret.value.location.raw_location = <<"P","a","r","i","s">>
    /\ ret.value.location.geocoded = NoneObj
    /\ queries # <<>>

\* The strings a manual entry for X answers for: X, "in X", "from X", "at X",
\* "near X" and "to X".
C12_Entered(X) ==
    { X, <<"i","n"," ">> \o X, <<"f","r","o","m"," ">> \o X, <<"a","t"," ">> \o X, <<"n","e","a","r"," ">> \o X, <<"t","o"," ">> \o X }

\* C12: add_known_location(X, lat, lon) leaves an entry with the coordinates lat
\* and lon under X and under each of its five variations, sends no query and
\* leaves request_count and last_request_time alone; geocode_location of any of
\* these strings after it returns that entry at once, without a query.
C12_ManualRoundTrip ==
    [][/\ \A s \in KnownNames, la \in KnownLatitudes, lo \in KnownLongitudes :
              add_known_location(s, la, lo, None, <<"P","a","r","i","s">>, None) =>
                  /\ \A k \in C12_Entered(s) :
                         /\ k \in DOMAIN location_cache'
                         /\ location_cache'[k].latitude = la
                         /\ location_cache'[k].longitude = lo
                  /\ queries' = <<>>
                  /\ passes' = 0
                  /\ UNCHANGED <<request_count, last_request_time, last_query_at>>
       /\ \A k \in ManualGeoInputs :
              (op = "idle" /\ ret.op = "add_known_location"
                  /\ k \in C12_Entered(ret.arg) /\ geocode_location(k)) =>
                  /\ op' = "idle"
                  /\ ret'.exc = "none"
                  /\ ret'.value # NoneObj
                  /\ ret'.value.latitude = location_cache[ret.arg].latitude
                  /\ ret'.value.longitude = location_cache[ret.arg].longitude
                  /\ queries' = <<>>
                  /\ passes' = 0
                  /\ UNCHANGED <<location_cache, request_count, last_request_time>>]_vars

\* A variation answered from the manual entry by a parser that never went to the
\* service.
C12_Witness ==
    /\ op = "idle"
    /\ ret.op = "geocode_location"
    /\ ret.arg = <<"n","e","a","r"," ","P","a","r","i","s">>
    /\ ret.value # NoneObj
    /\ ret.value.latitude = 49
    /\ ret.value.longitude = 2
    /\ queries = <<>>
    /\ request_count = 0

\* C13: no public call ends with an exception; a timeout, unavailable or service
\* error of a query counts as no result for that attempt: the call goes on to the
\* next attempt of the cascade when there is one, and returns None otherwise,
\* so that a call with a failed query ends with a result or after every attempt
\* was made.
C13_ErrorsCaught ==
    /\ [](ret.exc = "none")
    /\ [][(pc = "query" /\ queries' # queries
              /\ queries'[Len(queries')].kind = "error") =>
              LET toks == C4_TokensOf[location_str]
                  n == Len(queries')
              IN  IF n <= Len(toks)
                  THEN /\ op' = op
                       /\ pc' = "rate_limit"
                       /\ attempt' = toks[n]
                       /\ location_str' = location_str
                  ELSE /\ op' = "idle"
                       /\ ret' = Returned("geocode_location", location_str, NoneObj)]_vars

\* Every query of a call raised, and the call returned None after the last one.
C13_Witness ==
    /\ op = "idle"
    /\ ret.op = "geocode_location"
    /\ ret.exc = "none"
    /\ ret.value = NoneObj
    /\ Len(queries) = 3
    /\ \A i \in 1..3 : queries[i].kind = "error"

C15_FlushPerTenSuccesses ==
    (op = "idle" /\ ret.op = "parse_tweets_location" /\ request_count = passes) =>
        flushes = 1 + (Cardinality({i \in 1..Len(queries) :
                                       queries[i].kind = "location"}) \div 10)

\* C15, amended: it is returned after 1 + floor(Q/10) saves, Q being the number
\* of queries it sent, whatever they returned (each follows one rate-limit pass,
\* and every tenth pass saves).
C15_FlushPerTenQueries ==
    (op = "idle" /\ ret.op = "parse_tweets_location" /\ request_count = passes) =>
        /\ passes = Len(queries)
        /\ flushes = 1 + (Len(queries) \div 10)

\* A list that took ten queries or more, returned after two saves.
C15_Witness ==
    /\ op = "idle"
    /\ ret.op = "parse_tweets_location"
    /\ request_count = passes
    /\ Len(queries) >= 10
    /\ flushes = 2

\* The posts a list of enriched posts was made from.
C16_Posts(enriched) == [i \in 1..Len(enriched) |-> Original(enriched[i])]

\* C16: parse_tweets_location takes the posts in input order (the posts enriched
\* so far followed by the posts still to come are the input at every step, and an
\* enriched post is only ever appended), sends no save of its own before the last
\* post is done, and then returns the enriched posts after exactly one save; when
\* that save leaves a readable file other than the old one, the file holds the
\* in-memory cache.
C16_BatchOrderAndFlush ==
    [][/\ \A ts \in SeqsUpTo(Tweets, MaxBatch) :
              parse_tweets_location(ts) =>
                  /\ op' = "parse_tweets_location"
                  /\ tweets' = ts
                  /\ result' = <<>>
                  /\ flushes' = 0
       /\ (op = "parse_tweets_location" /\ op' = op) =>
              /\ C16_Posts(result') \o tweets' = C16_Posts(result) \o tweets
              /\ Len(result') >= Len(result)
              /\ \A i \in 1..Len(result) : result'[i] = result[i]
              /\ flushes' # flushes => pc = "stamp"
       /\ (op = "parse_tweets_location" /\ op' # op) =>
              /\ tweets = <<>>
              /\ op' = "idle"
              /\ ret' = Returned("parse_tweets_location", C16_Posts(result), result)
              /\ flushes' = flushes + 1
              /\ UNCHANGED location_cache
              /\ \/ cache_file' = cache_file
                 \/ cache_file'.state # "ok"
                 \/ /\ _load_cache(cache_file') = location_cache
                    /\ \A k \in DOMAIN location_cache :
                           <<k, location_cache[k]>> \in cache_file'.members]_vars

\* Two posts, the first without candidate, the second geocoded by a query,
\* returned in that order with the cache saved.
C16_Witness ==
    /\ op = "idle"
    /\ ret.op = "parse_tweets_location"
    /\ Len(ret.value) = 2
    /\ ret.value[1].location.raw_location = None
    /\ ret.value[2].location.geocoded # NoneObj
    /\ queries # <<>>
    /\ flushes = 1
    /\ cache_file.state = "ok"
    /\ _load_cache(cache_file) = location_cache

\* C17: a collection run ends with a save of the cache.
C17_CollectionRunFlushes ==
    [][(op = "collect_tweets_by_search" /\ op' = "idle") =>
          /\ flushes' = flushes + 1
          /\ \/ cache_file'.state # "ok"
             \/ \A k \in DOMAIN location_cache :
                    <<k, location_cache[k]>> \in cache_file'.members]_vars

C19_FailedFlushKeepsCache ==
    [][/\ ret'.exc = "none"
       /\ BatchEnd => UNCHANGED location_cache
       /\ (pc = "stamp" /\ flushes' # flushes) => UNCHANGED location_cache
       /\ \A s \in KnownNames, la \in KnownLatitudes, lo \in KnownLongitudes :
              add_known_location(s, la, lo, None, <<"P","a","r","i","s">>, None) =>
                  \A k \in DOMAIN location_cache \ C12_Entered(s) :
                      /\ k \in DOMAIN location_cache'
                      /\ location_cache'[k] = location_cache[k]
       /\ \A s \in PipelineGeoInputs :
              (/\ s \in DOMAIN location_cache
               /\ (cache_file.state # "ok"
                      \/ <<s, location_cache[s]>> \notin cache_file.members)
               /\ geocode_location(s)) =>
                  /\ op' = "idle"
                  /\ ret' = Returned("geocode_location", s, location_cache[s])
                  /\ queries' = <<>>
       /\ \A t \in Tweets, c \in GeoStrings :
              (/\ CandidatesOf[t] = {c}
               /\ c \in DOMAIN location_cache
               /\ cache_file.state # "ok"
               /\ parse_tweet_location(t)) =>
                  /\ op' = "idle"
                  /\ ret'.value.location.geocoded = location_cache[c]
                  /\ queries' = <<>>]_vars

\* An entry loaded at startup, answered from memory by a parser that never went to
\* the service, after a save that left the file unreadable.
C19_Witness ==
    /\ op = "idle"
    /\ ret.op = "parse_tweet_location"
    /\ ret.value.location.geocoded # NoneObj
    /\ queries = <<>>
    /\ request_count = 0
    /\ cache_file.state = "corrupt"

\* C20: any two consecutive external queries of the process, whichever call and
\* whichever LocationParser sent them, are sent at least one second apart.
C20_ProcessWideInterval ==
    [][(/\ last_query_at # -1
        /\ \/ pc = "query" /\ queries' # queries
           \/ OtherParserRequest)
          => last_query_at' - last_query_at >= OneSecond]_vars


(***************************************************************************)
(* Properties of two threads on one parser.                                *)
(***************************************************************************)
\* Thread t has returned from a call that sent its query at the time of its own
\* write of last_request_time.
C21_SentAtStamp(t) ==
    /\ thread[t].pc = "idle"
    /\ thread[t].sent_at # -1
    /\ thread[t].sent_at = thread[t].stamped_at

\* C21: nothing keeps a thread out of _respect_rate_limit while another is inside
\* it, between its read of last_request_time and its write; and the queries of two
\* threads, each sent at the time of the sender's write, are less than one second
\* apart only when the later writer read last_request_time before the earlier one
\* wrote it.
C21_UnsynchronisedLimiter ==
    /\ \A t \in Threads : thread[t].pc = "rate_limit" => ENABLED ThreadRead(t)
    /\ \A t \in Threads, u \in Threads :
           (/\ C21_SentAtStamp(t)
            /\ C21_SentAtStamp(u)
            /\ thread[t].stamp_no < thread[u].stamp_no
            /\ thread[u].sent_at - thread[t].sent_at < OneSecond)
               => thread[u].seen < thread[t].stamp_no

\* Both threads missed the cache, passed the limiter and sent their queries less
\* than one second apart.
C21_Witness ==
    /\ \A t \in Threads : C21_SentAtStamp(t)
    /\ thread[2].sent_at - thread[1].sent_at < OneSecond
    /\ thread[1].sent_at - thread[2].sent_at < OneSecond

(***************************************************************************)
(* Properties of the primary query, of what is cached and of the file.     *)
(***************************************************************************)
\* The gazetteer entries contained in the lowercased input.
C22_Contained(s) == {loc \in MAJOR_LOCATIONS : Contains(Lower(s), loc)}

C22_ContainedOf == [s \in TermInputs |-> C22_Contained(s)]

\* C22: the term of the primary query is the input as it is when the lowercased
\* input is a gazetteer entry; otherwise a gazetteer entry contained in the
\* lowercased input when there is one; otherwise the input as it is.
C22_PrimaryTerm ==
    [][(pc = "query" /\ attempt = 0 /\ queries' # queries) =>
          LET term == queries'[Len(queries')].term
          IN  /\ Len(queries') = 1
              /\ IF Lower(location_str) \in MAJOR_LOCATIONS
                 THEN term = location_str
                 ELSE IF C22_ContainedOf[location_str] # {}
                 THEN term \in C22_ContainedOf[location_str]
                 ELSE term = location_str
              /\ term = location_str \/ term \in C22_ContainedOf[location_str]]_vars

\* A call whose primary query sent the gazetteer entry in place of the longer
\* input.
C22_Witness ==
    /\ op = "idle"
    /\ ret.op = "geocode_location"
    /\ ret.arg = <<"G","r","e","a","t","e","r"," ","P","a","r","i","s"," ","a","r","e","a">>
    /\ queries # <<>>
    /\ queries[1].term = <<"p","a","r","i","s">>

\* C23: inside geocode_location, called directly or by parse_tweet_location or
\* parse_tweets_location, the cache changes only in the step of a query the
\* service answered with a Location: that step adds one entry, under the argument,
\* whose address, latitude, longitude and raw are those of one response, and the
\* call returns this entry; a step that ends the call with None, and every other
\* step of the call, leaves the cache as it was.
C23_NothingPartialCached ==
    [][/\ (pc = "query" /\ location_cache' # location_cache) =>
              /\ queries'[Len(queries')].kind = "location"
              /\ \E l \in ServiceLocations :
                     LET entry == [input |-> location_str, address |-> l.address,
                                   latitude |-> l.latitude, longitude |-> l.longitude,
                                   raw |-> l.raw]
                     IN  /\ location_cache' = (location_str :> entry) @@ location_cache
                         /\ op = "geocode_location" =>
                                ret' = Returned("geocode_location", location_str, entry)
       /\ (pc = "query" /\ queries'[Len(queries')].kind # "location") =>
              location_cache' = location_cache
       /\ (pc \in {"rate_limit", "sleep", "stamp"}) => location_cache' = location_cache
       /\ \A s \in PipelineGeoInputs :
              geocode_location(s) => location_cache' = location_cache
       /\ (op = "geocode_location" /\ op' = "idle" /\ ret'.exc = "none"
              /\ ret'.value = NoneObj) => location_cache' = location_cache]_vars

\* A call that went through the primary query and both words, got an error and
\* no match, returned None and stored nothing.
C23_Witness ==
    /\ op = "idle"
    /\ ret.op = "geocode_location"
    /\ ret.value = NoneObj
    /\ Len(queries) = 3
    /\ \E i \in 1..3 : queries[i].kind = "error"
    /\ \E i \in 1..3 : queries[i].kind = "none"
    /\ ret.arg \notin DOMAIN location_cache

\* C24: when the process is killed and started again, every entry of a file that a
\* completed save of the killed instance wrote (a readable file that is none of
\* the files the instance can have started on) is in the cache the new instance
\* loads, also when the kill comes while a later save is in progress.
C24_FlushedSurvivesCrash ==
    [][(/\ ret'.op = "__init__"
        /\ op' = "idle"
        /\ op # "idle" \/ ret.op # "__init__"
        /\ cache_file.state = "ok"
        /\ cache_file \notin InitialFiles) =>
           \A member \in cache_file.members :
               /\ member[1] \in DOMAIN location_cache'
               /\ location_cache'[member[1]] = member[2]]_vars

\* The file holds exactly the mapping: the same keys, each with the same value.
C25_Holds(file, cache) ==
    /\ file.state = "ok"
    /\ {member[1] : member \in file.members} = DOMAIN cache
    /\ \A member \in file.members : cache[member[1]] = member[2]

C26_Components(address) ==
    IF \E p \in PartLists : p # <<>> /\ JoinWith(p, <<","," ">>) = address
    THEN CHOOSE p \in PartLists : p # <<>> /\ JoinWith(p, <<","," ">>) = address
    ELSE <<address>>

C26_ComponentsOf == [a \in Addresses |-> C26_Components(a)]

\* What the claim expects for one 'geocoded' value.
C26_Expected(geocoded, row) ==
    IF geocoded = NoneObj \/ geocoded.address = None \/ geocoded.address = <<>>
    THEN row = [city |-> None, state_province |-> None, country |-> None]
    ELSE LET parts == C26_ComponentsOf[geocoded.address]
             n == Len(parts)
         IN  /\ row.country = parts[n]
             /\ n >= 3 => row.city = parts[n - 2] /\ row.state_province = parts[n - 1]
             /\ n = 2 => row.city = None /\ row.state_province = parts[1]
             /\ n = 1 => row.city = None /\ row.state_province = None

\* C26: the decomposition raises nothing; with three or more components city,
\* state and country are the last three in that order, with two state and country
\* are set and city is not, with one only country is, with no address or an empty
\* one none is; country, when set, is the last component.
C26_AddressDecomposition ==
    /\ ret.exc = "none"
    /\ (ret.op = "update_tweet_sentiment_location") =>
           C26_Expected(ret.arg.geocoded, ret.value)
    /\ (ret.op = "insert_tweet") =>
           IF ret.arg = NoneObj
           THEN ret.value = [city |-> None, state_province |-> None, country |-> None]
           ELSE C26_Expected(ret.arg.geocoded, ret.value)
    /\ (ret.op = "insert_tweets") =>
           /\ Len(ret.value) = Len(ret.arg)
           /\ \A i \in 1..Len(ret.arg) : C26_Expected(ret.arg[i].geocoded, ret.value[i])

\* An address of four components: the first is dropped, the other three are city,
\* state and country.
C26_Witness ==
    /\ ret.op = "update_tweet_sentiment_location"
    /\ ret.arg.geocoded # NoneObj
    /\ ret.arg.geocoded.address = <<"P","a","r","i","s",","," ","P","a","r","i","s",","," ","I","l","e","-","d","e","-","F","r","a","n","c","e",","," ","F","r","a","n","c","e">>
    /\ ret.value = [city |-> <<"P","a","r","i","s">>, state_province |-> <<"I","l","e","-","d","e","-","F","r","a","n","c","e">>,
                    country |-> <<"F","r","a","n","c","e">>]

C28_KeysIn(file) == IF file.state = "ok" THEN {member[1] : member \in file.members} ELSE {}

\* C28: the save of the pass that brings request_count to a multiple of 10 is made
\* before the query of that pass is sent, of a cache that has no entry for the
\* string being geocoded, and the file it writes has none; the step that sends
\* the query leaves the file as it is; and a key comes into the file only in a
\* step that saves.
C28_FlushBeforeQuery ==
    [][/\ (pc = "stamp" /\ flushes' = flushes + 1) =>
              /\ request_count' % 10 = 0
              /\ total_queries' = request_count' - 1
              /\ pc' = "query"
              /\ location_str \notin DOMAIN location_cache
              /\ location_cache' = location_cache
              /\ cache_file' # cache_file => location_str \notin C28_KeysIn(cache_file')
       /\ (pc = "stamp" /\ (request_count + 1) % 10 = 0) => flushes' = flushes + 1
       /\ (pc = "query") => cache_file' = cache_file
       /\ (C28_KeysIn(cache_file') \ C28_KeysIn(cache_file) # {}) =>
              flushes' = flushes + 1]_vars

\* The tenth query has been answered and its result is in the cache; the file
\* written by the save of the tenth pass does not hold it.
C28_Witness ==
    /\ op = "parse_tweets_location"
    /\ request_count = 10
    /\ total_queries = 10
    /\ flushes = 1
    /\ cache_file.state = "ok"
    /\ <<"P","a","r","i","s">> \in DOMAIN location_cache
    /\ <<"P","a","r","i","s">> \notin C28_KeysIn(cache_file)

\* The entries of the cache that a parser started on the file would not have.
C29_Absent ==
    {k \in DOMAIN location_cache :
        \/ cache_file.state # "ok"
        \/ <<k, location_cache[k]>> \notin cache_file.members}

C30_Bound(s) ==
    IF s = <<>> THEN 0
    ELSE IF Len(Split(s)) <= 1 THEN 1
    ELSE 1 + Len(C4_TokensOf[s])

C30_BoundOf == [s \in GeoInputs |-> C30_Bound(s)]

\* C30: a call of geocode_location returns; it sends no query on a cache hit or an
\* empty input, at most one for an input of one token, and at most one more than
\* the input has tokens in the gazetteer otherwise; the queries after the first
\* go through the tokens forwards, none taken twice.
C30_CallTerminates ==
    /\ [](/\ op = "geocode_location" => Len(queries) <= C30_BoundOf[location_str]
          /\ (op = "idle" /\ ret.op = "geocode_location") =>
                 Len(queries) <= C30_BoundOf[ret.arg]
          /\ \A i \in 2..Len(queries) :
                 /\ queries[i].attempt > queries[i - 1].attempt
                 /\ queries[i].attempt > 0)
    /\ [][\A s \in GeoInputs :
             ((s \in DOMAIN location_cache \/ s = <<>>) /\ geocode_location(s)) =>
                 /\ op' = "idle"
                 /\ queries' = <<>>]_vars
    /\ (op = "geocode_location") ~> (op = "idle" /\ ret.op = "geocode_location")

\* A call on several tokens that sent as many queries as it may, and returned.
C30_Witness ==
    /\ op = "idle"
    /\ ret.op = "geocode_location"
    /\ Len(Split(ret.arg)) > 1
    /\ Len(queries) = C30_BoundOf[ret.arg]
    /\ Len(queries) >= 3

====
